---- MODULE Spec2Model ----
(***************************************************************************)
(* Model of the HR attrition pipeline: HRDataPreprocessor                  *)
(* (data_preprocessing.py), EmployeeAttritionAnalyzer                      *)
(* (attrition_analysis.py) and the high-performer table of                 *)
(* HRDataVisualizer (visualization.py).                                    *)
(*                                                                         *)
(* A table (DataFrame) is a sequence of rows; a row is a record.  A        *)
(* numeric cell is <<>> (NaN, missing) or <<n>>, where n counts HALVES:    *)
(* the value 3 is <<6>>, 2.5 is <<5>>.  Raw cells hold whole numbers, so   *)
(* the median of a column is always a cell value.  A comparison with NaN   *)
(* is false, as in pandas.                                                 *)
(***************************************************************************)
EXTENDS Integers, Sequences, FiniteSets, TLC

VARIABLES
    employee_columns,   \* the header of employee_data.csv
    employee_file,      \* content of employee_data.csv, or Unreadable
    performance_file,   \* content of performance_data.csv, or Unreadable
    exit_survey_file,   \* content of exit_survey_data.csv, or Unreadable
    employee_data,      \* HRDataPreprocessor.employee_data (None before load)
    performance_data,   \* HRDataPreprocessor.performance_data
    exit_survey_data,   \* HRDataPreprocessor.exit_survey_data
    processed_data,     \* HRDataPreprocessor.processed_data
    data_quality_report,\* HRDataPreprocessor.data_quality_report
    removed_duplicates, \* initial_count - len(df) of clean_employee_data
    stage               \* position of run_full_preprocessing_pipeline

prep_vars == <<employee_columns, employee_file, performance_file, exit_survey_file, employee_data,
               performance_data, exit_survey_data, processed_data,
               data_quality_report, removed_duplicates, stage>>

VARIABLES
    performance_columns,  \* the header of performance_data.csv
    groupby_observed,     \* the default of groupby(observed=...) of the pandas in use
    an_employee_data,     \* EmployeeAttritionAnalyzer.employee_data
    an_performance_data,  \* EmployeeAttritionAnalyzer.performance_data
    an_exit_survey_data,  \* EmployeeAttritionAnalyzer.exit_survey_data
    analysis_results,     \* EmployeeAttritionAnalyzer.analysis_results
    merged_data,          \* the merged frame of analyze_performance_impact
    current_employees,    \* the scored frame of identify_high_risk_employees
    an_stage,             \* position of the analyzer's main()
    data,                 \* HRDataVisualizer.data
    hp_attrition,         \* the high-performer table of the visualizer
    vis_stage             \* position of the visualizer

analysis_vars == <<performance_columns, groupby_observed, an_employee_data,
                   an_performance_data, an_exit_survey_data, analysis_results,
                   merged_data, current_employees, an_stage, data, hp_attrition,
                   vis_stage>>

vars == <<prep_vars, analysis_vars>>

-----------------------------------------------------------------------------
(* Cells *)

NaN == <<>>
\* an attribute no table was assigned to: a table no DataFrame equals
None == <<[None |-> TRUE]>>
\* a file read_csv cannot read
Unreadable == <<[Unreadable |-> TRUE]>>

Num(n) == <<2 * n>>

IsNaN(c) == c = NaN
Lt(c, n) == c # NaN /\ c[1] < n[1]
Gt(c, n) == c # NaN /\ c[1] > n[1]
Le(c, n) == c # NaN /\ c[1] <= n[1]
Ge(c, n) == c # NaN /\ c[1] >= n[1]

\* Series.between(a, b): both ends inclusive
between(c, a, b) == Ge(c, a) /\ Le(c, b)

Column(df, col) == [i \in 1..Len(df) |-> df[i][col]]

RECURSIVE KeepRows(_, _, _)
\* df[mask]: the rows whose index is in keep, in order
KeepRows(df, keep, i) ==
    IF i > Len(df) THEN <<>>
    ELSE (IF i \in keep THEN <<df[i]>> ELSE <<>>) \o KeepRows(df, keep, i + 1)

-----------------------------------------------------------------------------
(* clean_employee_data *)

\* keep='last' instead of keep='first'
drop_duplicates_KeepLast(df) ==
    KeepRows(df, {i \in 1..Len(df) :
                    \A j \in (i + 1)..Len(df) : df[j].employee_id # df[i].employee_id}, 1)

\* DataFrame.drop_duplicates(subset=['employee_id']), keep='first'
drop_duplicates(df) ==
    KeepRows(df, {i \in 1..Len(df) :
                    \A j \in 1..(i - 1) : df[j].employee_id # df[i].employee_id}, 1)

NumericFields == {"age", "monthly_income", "years_at_company", "performance_rating",
                  "job_satisfaction", "work_life_balance", "distance_from_home"}

numeric_validations ==
    [age                |-> <<Num(18), Num(70)>>,
     monthly_income     |-> <<Num(1000), Num(20000)>>,
     years_at_company   |-> <<Num(0), Num(50)>>,
     performance_rating |-> <<Num(1), Num(5)>>,
     job_satisfaction   |-> <<Num(1), Num(5)>>,
     work_life_balance  |-> <<Num(1), Num(5)>>,
     distance_from_home |-> <<Num(0), Num(100)>>]

\* the upper bound written where the lower one belongs
CapCell_SwappedBound(c, min_val, max_val) ==
    IF Lt(c, min_val) THEN max_val ELSE IF Gt(c, max_val) THEN max_val ELSE c

\* df.loc[df[col] < min_val, col] = min_val ; df.loc[df[col] > max_val, col] = max_val
CapCell(c, min_val, max_val) ==
    LET c1 == IF Lt(c, min_val) THEN min_val ELSE c
    IN  IF Gt(c1, max_val) THEN max_val ELSE c1

\* one pass of the loop over numeric_validations
CapColumn(df, col) ==
    LET min_val  == numeric_validations[col][1]
        max_val  == numeric_validations[col][2]
        outliers == {i \in 1..Len(df) : Lt(df[i][col], min_val) \/ Gt(df[i][col], max_val)}
    IN  IF Cardinality(outliers) > 0
        THEN [i \in 1..Len(df) |-> [df[i] EXCEPT ![col] = CapCell(@, min_val, max_val)]]
        ELSE df

RECURSIVE CapColumns(_, _)
CapColumns(df, cols) ==
    IF cols = {} THEN df
    ELSE LET col == CHOOSE c \in cols : TRUE
         IN  CapColumns(CapColumn(df, col), cols \ {col})

CapOutliers(df) == CapColumns(df, NumericFields)

\* the k-th smallest of the non-missing cells of a column (k from 1)
KthSmallest(cells, k) ==
    CHOOSE c \in {cells[i] : i \in DOMAIN cells} \ {NaN} :
        /\ Cardinality({i \in DOMAIN cells : Lt(cells[i], c)}) < k
        /\ Cardinality({i \in DOMAIN cells : Le(cells[i], c)}) >= k

\* Series.median(): NaN skipped; NaN when nothing is left
median(cells) ==
    LET n == Cardinality({i \in DOMAIN cells : cells[i] # NaN})
    IN  IF n = 0 THEN NaN
        ELSE IF n % 2 = 1 THEN KthSmallest(cells, (n + 1) \div 2)
        ELSE <<(KthSmallest(cells, n \div 2)[1] + KthSmallest(cells, n \div 2 + 1)[1]) \div 2>>

ImputedFields == {"job_satisfaction", "work_life_balance", "performance_rating",
                  "distance_from_home"}

\* Series.fillna(fill_val)
fillna(c, fill_val) == IF c = NaN THEN fill_val ELSE c

FillMissing(df) ==
    LET fill_values == [col \in ImputedFields |-> median(Column(df, col))]
    IN  [i \in 1..Len(df) |->
            [col \in DOMAIN df[i] |->
                IF col \in ImputedFields THEN fillna(df[i][col], fill_values[col])
                ELSE df[i][col]]]

-----------------------------------------------------------------------------
(* Text cells: a sequence of one-character strings (<<>> is the empty      *)
(* string).  MissingText is the missing text cell; True_ and False_ are the *)
(* boolean cells: one-element sequences no text equals.                     *)

MissingText == <<"NaN">>
True_  == <<"True">>
False_ == <<"False">>

LowerCase == <<"a", "b", "c", "d", "e", "f", "g", "h", "i", "j", "k", "l", "m",
               "n", "o", "p", "q", "r", "s", "t", "u", "v", "w", "x", "y", "z">>
UpperCase == <<"A", "B", "C", "D", "E", "F", "G", "H", "I", "J", "K", "L", "M",
               "N", "O", "P", "Q", "R", "S", "T", "U", "V", "W", "X", "Y", "Z">>

IsLower(ch) == \E k \in DOMAIN LowerCase : LowerCase[k] = ch
IsUpper(ch) == \E k \in DOMAIN UpperCase : UpperCase[k] = ch
IsCased(ch) == IsLower(ch) \/ IsUpper(ch)
IsSpace(ch) == ch = " "

ToUpper(ch) == IF IsLower(ch) THEN UpperCase[CHOOSE k \in DOMAIN LowerCase : LowerCase[k] = ch]
               ELSE ch
ToLower(ch) == IF IsUpper(ch) THEN LowerCase[CHOOSE k \in DOMAIN UpperCase : UpperCase[k] = ch]
               ELSE ch

\* Series.astype(str): a missing cell becomes the text "nan", a boolean its name
astype_str(s) ==
    IF s = MissingText THEN <<"n", "a", "n">>
    ELSE IF s = True_ THEN <<"T", "r", "u", "e">>
    ELSE IF s = False_ THEN <<"F", "a", "l", "s", "e">>
    ELSE s

\* str.lstrip(): only the leading whitespace goes
strip_Leading(s) ==
    LET keep == {i \in DOMAIN s : ~IsSpace(s[i])}
    IN  IF keep = {} THEN <<>>
        ELSE SubSeq(s, CHOOSE i \in keep : \A j \in keep : i <= j, Len(s))

\* str.strip()
strip(s) ==
    LET keep == {i \in DOMAIN s : ~IsSpace(s[i])}
    IN  IF keep = {} THEN <<>>
        ELSE LET first == CHOOSE i \in keep : \A j \in keep : i <= j
                 last  == CHOOSE i \in keep : \A j \in keep : i >= j
             IN  SubSeq(s, first, last)

\* str.title(): a cased character is upper case after an uncased one (or at
\* the start) and lower case after a cased one
title(s) ==
    [i \in DOMAIN s |-> IF i > 1 /\ IsCased(s[i - 1]) THEN ToLower(s[i]) ELSE ToUpper(s[i])]

\* str.upper()
str_upper(s) == [i \in DOMAIN s |-> ToUpper(s[i])]

\* str.capitalize()
capitalize(s) == [i \in DOMAIN s |-> IF i = 1 THEN ToUpper(s[i]) ELSE ToLower(s[i])]

txt_IT  == <<"I", "T">>
txt_HR  == <<"H", "R">>
txt_RnD == <<"R", "&", "D">>
txt_Yes == <<"Y", "e", "s">>
txt_No  == <<"N", "o">>

\* Series.replace(dept_mapping): whole-cell exact match
replace_dept(s) ==
    IF s = <<"I", "t">> THEN txt_IT
    ELSE IF s = <<"H", "r">> THEN txt_HR
    ELSE IF s = txt_RnD THEN txt_RnD
    ELSE IF s = <<"R", "e", "s", "e", "a", "r", "c", "h", " ", "&", " ",
                  "D", "e", "v", "e", "l", "o", "p", "m", "e", "n", "t">> THEN txt_RnD
    ELSE s

text_columns == {"department", "job_role", "gender", "attrition"}

CleanTextCell(col, s) ==
    LET t == title(strip(astype_str(s)))
    IN  IF col = "gender" THEN str_upper(t)
        ELSE IF col = "attrition" THEN capitalize(t)
        ELSE IF col = "department" THEN replace_dept(t)
        ELSE t

CleanText(df) ==
    [i \in 1..Len(df) |->
        [col \in DOMAIN df[i] |->
            IF col \in text_columns THEN CleanTextCell(col, df[i][col]) ELSE df[i][col]]]

Digit == <<"0", "1", "2", "3", "4", "5", "6", "7", "8", "9">>

RECURSIVE Digits(_)
\* the decimal digits of a natural number
Digits(k) == IF k < 10 THEN <<Digit[k + 1]>> ELSE Append(Digits(k \div 10), Digit[(k % 10) + 1])

RECURSIVE ParseDigits(_)
\* the natural number a sequence of digits stands for
ParseDigits(s) ==
    IF Len(s) = 0 THEN 0
    ELSE 10 * ParseDigits(SubSeq(s, 1, Len(s) - 1))
         + (CHOOSE d \in DOMAIN Digit : Digit[d] = s[Len(s)]) - 1

\* a date cell is the text read from the file before the conversion; after
\* it, NaT or a Timestamp, written here as the marker and the ISO date
NaT == <<"NaT">>

Timestamp(iso) == <<"Timestamp">> \o iso

IsTimestamp(c) == Len(c) >= 1 /\ c[1] = "Timestamp"

IsDigits(s) == \A i \in DOMAIN s : \E d \in DOMAIN Digit : Digit[d] = s[i]

DaysInMonth(y, m) ==
    IF m = 2 THEN (IF y % 4 = 0 /\ (y % 100 # 0 \/ y % 400 = 0) THEN 29 ELSE 28)
    ELSE IF m \in {4, 6, 9, 11} THEN 30 ELSE 31

\* a conversion that takes every text of the shape of an ISO date for a date
to_datetime_AnyDigits(c) ==
    IF c = NaT \/ IsTimestamp(c) THEN c
    ELSE IF c = MissingText THEN NaT
    ELSE IF Len(c) = 10 /\ c[5] = "-" /\ c[8] = "-" THEN Timestamp(c)
    ELSE NaT

\* pd.to_datetime(column, errors='coerce') of one cell: an ISO date of the
\* calendar within the range of Timestamp is converted, a converted cell is
\* kept, a missing cell and every text that is no date become NaT
to_datetime(c) ==
    IF c = NaT \/ IsTimestamp(c) THEN c
    ELSE IF c = MissingText THEN NaT
    ELSE IF /\ Len(c) = 10
            /\ c[5] = "-"
            /\ c[8] = "-"
            /\ IsDigits(SubSeq(c, 1, 4) \o SubSeq(c, 6, 7) \o SubSeq(c, 9, 10))
         THEN LET y == ParseDigits(SubSeq(c, 1, 4))
                  m == ParseDigits(SubSeq(c, 6, 7))
                  d == ParseDigits(SubSeq(c, 9, 10))
              IN  IF y \in 1678..2261 /\ m \in 1..12 /\ d \in 1..DaysInMonth(y, m)
                  THEN Timestamp(c) ELSE NaT
    ELSE NaT

\* "if col in df.columns: df[col] = pd.to_datetime(df[col], errors='coerce')"
ConvertDates(df, col) ==
    [i \in 1..Len(df) |->
        IF col \in DOMAIN df[i] THEN [df[i] EXCEPT ![col] = to_datetime(@)] ELSE df[i]]

\* the table clean_employee_data stores and returns
CleanEmployee(df) ==
    FillMissing(ConvertDates(CapOutliers(CleanText(drop_duplicates(df))), "attrition_date"))

-----------------------------------------------------------------------------
(* to_csv of save_processed_data, and read_csv of the exported file *)

\* the field to_csv writes for a numeric cell: nothing for NaN (na_rep=''),
\* else the shortest decimal of the float (cells are non-negative halves)
WriteNumber(c) ==
    IF c = NaN THEN <<>>
    ELSE Digits(c[1] \div 2) \o (IF c[1] % 2 = 1 THEN <<".", "5">> ELSE <<".", "0">>)

\* the field to_csv writes for a text cell: nothing for a missing cell
WriteText(s) == IF s = MissingText THEN <<>> ELSE s

DateFields == {"attrition_date", "review_date", "exit_date"}

\* the field to_csv writes for a date cell: nothing for NaT, else the ISO date
WriteDate(c) ==
    IF c = NaT \/ c = MissingText THEN <<>> ELSE IF IsTimestamp(c) THEN Tail(c) ELSE c

\* the fields read_csv reads as missing (the default na_values every pandas
\* release shares)
na_values ==
    {<<>>, <<"#", "N", "/", "A">>, <<"#", "N", "/", "A", " ", "N", "/", "A">>,
     <<"#", "N", "A">>, <<"-", "1", ".", "#", "I", "N", "D">>,
     <<"-", "1", ".", "#", "Q", "N", "A", "N">>, <<"-", "N", "a", "N">>,
     <<"-", "n", "a", "n">>, <<"1", ".", "#", "I", "N", "D">>,
     <<"1", ".", "#", "Q", "N", "A", "N">>, <<"<", "N", "A", ">">>,
     <<"N", "/", "A">>, <<"N", "A">>, <<"N", "U", "L", "L">>, <<"N", "a", "N">>,
     <<"n", "/", "a">>, <<"n", "a", "n">>, <<"n", "u", "l", "l">>}

\* the numeric cell read_csv parses from a field of digits with an optional
\* fraction of one digit
ReadNumber(field) ==
    IF field \in na_values THEN NaN
    ELSE LET dot   == {i \in DOMAIN field : field[i] = "."}
             whole == IF dot = {} THEN field
                      ELSE SubSeq(field, 1, (CHOOSE i \in dot : TRUE) - 1)
             half  == dot # {} /\ field[Len(field)] = "5"
         IN  <<2 * ParseDigits(whole) + (IF half THEN 1 ELSE 0)>>

ReadText(field) == IF field \in na_values THEN MissingText ELSE field

\* DataFrame.to_csv(index=False): every cell as the field written for it
to_csv(df) ==
    [i \in 1..Len(df) |->
        [col \in DOMAIN df[i] |->
            IF col = "employee_id" THEN Digits(df[i][col])
            ELSE IF col \in NumericFields THEN WriteNumber(df[i][col])
            ELSE IF col \in DateFields THEN WriteDate(df[i][col])
            ELSE WriteText(df[i][col])]]

\* pd.read_csv of an exported file
read_csv(file) ==
    [i \in 1..Len(file) |->
        [col \in DOMAIN file[i] |->
            IF col = "employee_id" THEN ParseDigits(file[i][col])
            ELSE IF col \in NumericFields THEN ReadNumber(file[i][col])
            ELSE ReadText(file[i][col])]]

-----------------------------------------------------------------------------
(* clean_performance_data, clean_exit_survey_data *)

\* Series.clip(lower, upper): NaN stays NaN
clip(c, lower, upper) ==
    IF Lt(c, lower) THEN lower ELSE IF Gt(c, upper) THEN upper ELSE c

\* Series.map({'Yes': True, 'No': False}): any other value becomes missing
map_promotion_ready(s) ==
    IF s = txt_Yes THEN True_ ELSE IF s = txt_No THEN False_ ELSE MissingText

CleanPerformance(df) ==
    [i \in 1..Len(df) |->
        [df[i] EXCEPT
            !.review_date        = to_datetime(@),
            !.performance_rating = clip(@, Num(1), Num(5)),
            !.goals_met          = clip(@, Num(0), Num(100)),
            !.promotion_ready    = map_promotion_ready(capitalize(strip(astype_str(@))))]]

CleanExitSurvey(df) ==
    [i \in 1..Len(df) |->
        [df[i] EXCEPT
            !.exit_date               = to_datetime(@),
            !.would_recommend_company = clip(@, Num(1), Num(5)),
            !.overall_satisfaction    = clip(@, Num(1), Num(5)),
            !.exit_reason_primary     = strip(astype_str(@))]]

-----------------------------------------------------------------------------
(* engineer_features *)

\* a category cell is a label, or NoCategory where pandas has NaN
NoCategory == "NaN"

\* pd.cut(x, bins, labels): intervals (bins[k], bins[k+1]], right-inclusive,
\* the lowest edge excluded; a value in no interval (or NaN) has no category
cut(c, bins, labels) ==
    IF \E k \in 1..Len(labels) : Gt(c, bins[k]) /\ Le(c, bins[k + 1])
    THEN labels[CHOOSE k \in 1..Len(labels) : Gt(c, bins[k]) /\ Le(c, bins[k + 1])]
    ELSE NoCategory

age_bins   == <<Num(0), Num(25), Num(30), Num(35), Num(40), Num(50), Num(100)>>
age_labels == <<"Under_25", "25_29", "30_34", "35_39", "40_49", "Over_50">>

tenure_bins   == <<Num(0), Num(1), Num(3), Num(5), Num(10), Num(100)>>
tenure_labels == <<"New_0_1", "Early_1_3", "Mid_3_5", "Senior_5_10", "Veteran_10plus">>

\* bins with the first inner edge moved
commute_bins_Moved == <<Num(0), Num(11), Num(20), Num(30), Num(100)>>

commute_bins   == <<Num(0), Num(10), Num(20), Num(30), Num(100)>>
commute_labels == <<"Close", "Moderate", "Far", "Very_Far">>

quartile_labels == <<"Q1_Low", "Q2_Medium", "Q3_High", "Q4_Top">>

\* 4 * (the k/4 quantile of the non-missing cells), linear interpolation
\* between the two nearest order statistics (numpy's default)
Quantile4(cells, k) ==
    LET n   == Cardinality({i \in DOMAIN cells : cells[i] # NaN})
        pos == (n - 1) * k
        lo  == pos \div 4 + 1
        r   == pos % 4
    IN  IF r = 0 THEN 4 * KthSmallest(cells, lo)[1]
        ELSE (4 - r) * KthSmallest(cells, lo)[1] + r * KthSmallest(cells, lo + 1)[1]

\* pd.qcut raises ValueError("Bin edges must be unique") unless the five
\* quantile edges differ; with no value at all there is no edge
qcut_raises(cells) ==
    \/ \A i \in DOMAIN cells : cells[i] = NaN
    \/ Cardinality({Quantile4(cells, k) : k \in 0..4}) < 5

\* pd.qcut(x, 4, labels): (edge[j-1], edge[j]], the lowest edge included
qcut(c, cells, labels) ==
    IF c = NaN THEN NoCategory
    ELSE labels[CHOOSE j \in 1..4 :
                    /\ 4 * c[1] <= Quantile4(cells, j)
                    /\ \/ 4 * c[1] > Quantile4(cells, j - 1)
                       \/ j = 1 /\ 4 * c[1] = Quantile4(cells, 0)]

\* Series.map({1: 'Poor', ..., 5: 'Excellent'}): no key, no category
performance_category(c) ==
    IF c = Num(1) THEN "Poor"
    ELSE IF c = Num(2) THEN "Below_Average"
    ELSE IF c = Num(3) THEN "Average"
    ELSE IF c = Num(4) THEN "Good"
    ELSE IF c = Num(5) THEN "Excellent"
    ELSE NoCategory

\* (5 - job_satisfaction) * 2 + (5 - work_life_balance) * 1.5, in quarters
satisfaction_risk_score(row) ==
    IF row.job_satisfaction = NaN \/ row.work_life_balance = NaN THEN NaN
    ELSE <<4 * (10 - row.job_satisfaction[1]) + 3 * (10 - row.work_life_balance[1])>>

\* the weights 0.3, 0.4, 0.3
engagement_score_OtherWeights(row) ==
    IF row.job_satisfaction = NaN \/ row.work_life_balance = NaN
       \/ row.performance_rating = NaN THEN NaN
    ELSE <<3 * row.job_satisfaction[1] + 4 * row.work_life_balance[1]
           + 3 * row.performance_rating[1]>>

\* job_satisfaction * 0.4 + work_life_balance * 0.3 + performance_rating * 0.3,
\* in twentieths
engagement_score(row) ==
    IF row.job_satisfaction = NaN \/ row.work_life_balance = NaN
       \/ row.performance_rating = NaN THEN NaN
    ELSE <<4 * row.job_satisfaction[1] + 3 * row.work_life_balance[1]
           + 3 * row.performance_rating[1]>>

\* between(1, 3) taken as exclusive of its ends
high_risk_employee_ExclusiveTenure(row) ==
    \/ Le(row.job_satisfaction, Num(2))
    \/ Le(row.work_life_balance, Num(2))
    \/ Gt(row.years_at_company, Num(1)) /\ Lt(row.years_at_company, Num(3))
    \/ Ge(row.performance_rating, Num(4))

high_risk_employee(row) ==
    \/ Le(row.job_satisfaction, Num(2))
    \/ Le(row.work_life_balance, Num(2))
    \/ between(row.years_at_company, Num(1), Num(3))
    \/ Ge(row.performance_rating, Num(4))

\* str.contains(pattern, case=False, na=False) for a plain word
contains(s, word) ==
    /\ s # MissingText
    /\ \E k \in 0..(Len(s) - Len(word)) :
           \A j \in 1..Len(word) : ToLower(s[k + j]) = ToLower(word[j])

leadership_role(row) ==
    \/ contains(row.job_role, <<"M", "a", "n", "a", "g", "e", "r">>)
    \/ contains(row.job_role, <<"L", "e", "a", "d">>)
    \/ contains(row.job_role, <<"D", "i", "r", "e", "c", "t", "o", "r">>)
    \/ contains(row.job_role, <<"S", "e", "n", "i", "o", "r">>)

EngineerRow(df, i) ==
    df[i] @@
    [age_group               |-> cut(df[i].age, age_bins, age_labels),
     tenure_group            |-> cut(df[i].years_at_company, tenure_bins, tenure_labels),
     salary_quartile         |-> qcut(df[i].monthly_income, Column(df, "monthly_income"),
                                      quartile_labels),
     commute_category        |-> cut(df[i].distance_from_home, commute_bins, commute_labels),
     performance_category    |-> performance_category(df[i].performance_rating),
     satisfaction_risk_score |-> satisfaction_risk_score(df[i]),
     engagement_score        |-> engagement_score(df[i]),
     high_risk_employee      |-> high_risk_employee(df[i]),
     leadership_role         |-> leadership_role(df[i])] @@
    (IF "attrition_date" \in DOMAIN df[i]
     THEN [tenure_at_exit |-> IF df[i].attrition = txt_Yes THEN df[i].years_at_company
                              ELSE NaN]
     ELSE <<>>)

EngineerFeatures(df) == [i \in 1..Len(df) |-> EngineerRow(df, i)]

-----------------------------------------------------------------------------
(* merge_datasets *)

\* the right-hand columns of a row, without the join key
RightColumns(r) == [c \in DOMAIN r \ {"employee_id"} |-> r[c]]

RECURSIVE merge_left(_, _, _, _)
\* DataFrame.merge(right, on='employee_id', how='left'): left order kept, one
\* output row per matching right row, the missing row where none matches
merge_left(left, right, missing, i) ==
    IF i > Len(left) THEN <<>>
    ELSE LET matches == KeepRows(right, {j \in 1..Len(right) :
                                    right[j].employee_id = left[i].employee_id}, 1)
             joined  == IF Len(matches) = 0 THEN <<left[i] @@ missing>>
                        ELSE [k \in 1..Len(matches) |-> left[i] @@ RightColumns(matches[k])]
         IN  joined \o merge_left(left, right, missing, i + 1)

\* performance_data[available_perf_cols]; performance_rating is in both tables
\* and takes the suffix '_perf'
PerfColumns(df) ==
    [j \in 1..Len(df) |->
        [employee_id             |-> df[j].employee_id,
         performance_rating_perf |-> df[j].performance_rating,
         goals_met               |-> df[j].goals_met,
         promotion_ready         |-> df[j].promotion_ready]]

\* zeros where the merge has missing values
MissingPerf_Zero == [performance_rating_perf |-> Num(0), goals_met |-> Num(0),
                     promotion_ready |-> False_]

MissingPerf == [performance_rating_perf |-> NaN, goals_met |-> NaN,
                promotion_ready |-> MissingText]

\* exit_survey_data[available_exit_cols]
ExitColumns(df) ==
    [j \in 1..Len(df) |->
        [employee_id             |-> df[j].employee_id,
         exit_reason_primary     |-> df[j].exit_reason_primary,
         overall_satisfaction    |-> df[j].overall_satisfaction,
         would_recommend_company |-> df[j].would_recommend_company]]

MissingExit == [exit_reason_primary |-> MissingText, overall_satisfaction |-> NaN,
                would_recommend_company |-> NaN]

\* a merge without suffixes: the joined rating takes the place of the employee's
MergeDatasets_Overwrites(emp, perf, exit) ==
    LET merged == merge_left(merge_left(emp, PerfColumns(perf), MissingPerf, 1),
                             ExitColumns(exit), MissingExit, 1)
    IN  [k \in 1..Len(merged) |->
            [merged[k] EXCEPT !.performance_rating = merged[k].performance_rating_perf]]

MergeDatasets(emp, perf, exit) ==
    merge_left(merge_left(emp, PerfColumns(perf), MissingPerf, 1),
               ExitColumns(exit), MissingExit, 1)

-----------------------------------------------------------------------------
(* Grouping and rates *)

\* code points in increasing order
Ascii == <<" ", "&">> \o UpperCase \o LowerCase

CharCode(ch) == CHOOSE k \in DOMAIN Ascii : Ascii[k] = ch

\* s < t for Python strings
TextLess(s, t) ==
    \E k \in 1..(Len(t)) :
        /\ \A j \in 1..(k - 1) : j <= Len(s) /\ s[j] = t[j]
        /\ \/ k = Len(s) + 1
           \/ k <= Len(s) /\ CharCode(s[k]) < CharCode(t[k])

\* the distinct non-missing values of a text column, in increasing order:
\* the group keys of groupby(col) (sort=True, dropna=True)
TextKeys(df, col) ==
    LET keys == {df[i][col] : i \in 1..Len(df)} \ {MissingText}
    IN  [k \in 1..Cardinality(keys) |->
            CHOOSE s \in keys : Cardinality({t \in keys : TextLess(t, s)}) = k - 1]

\* the distinct non-missing values of a numeric column, in increasing order
NumericKeys(df, col) ==
    LET keys == {df[i][col] : i \in 1..Len(df)} \ {NaN}
    IN  [k \in 1..Cardinality(keys) |->
            CHOOSE c \in keys : Cardinality({d \in keys : d[1] < c[1]}) = k - 1]

\* the group keys of groupby(col) for a categorical column: every category
\* when observed=False, the categories that occur when observed=True
CategoryKeys(df, col, labels, observed) ==
    IF observed
    THEN SelectSeq(labels, LAMBDA l : \E i \in 1..Len(df) : df[i][col] = l)
    ELSE labels

Members(df, col, key) == {i \in 1..Len(df) : df[i][col] = key}

\* (x == 'Yes').sum() over a group
Departed(df, rows) == Cardinality({i \in rows : df[i].attrition = txt_Yes})

\* a quotient a / b of the report: <<a, b>>, or NaN for 0 / 0
RateNaN == <<"NaN">>
Quotient(a, b) == IF b = 0 THEN RateNaN ELSE <<a, b>>

\* the sum of the non-missing cells of a column over a group, and their count
RECURSIVE SumCells(_, _, _)
SumCells(df, col, rows) ==
    IF rows = {} THEN 0
    ELSE LET i == CHOOSE j \in rows : TRUE
         IN  (IF df[i][col] = NaN THEN 0 ELSE df[i][col][1]) + SumCells(df, col, rows \ {i})

\* 'mean' of a column over a group (NaN skipped), as a quotient
Mean(df, col, rows) ==
    Quotient(SumCells(df, col, rows), Cardinality({i \in rows : df[i][col] # NaN}))

\* attrition / employee_id * 100
attrition_rate(departed, count) == Quotient(100 * departed, count)

\* the order of an ascending sort
RateGe_Ascending(a, b) == a[1] * b[2] <= b[1] * a[2]

\* a >= b for two quotients that are not NaN
RateGe(a, b) == a[1] * b[2] >= b[1] * a[2]

Injective(p) == \A i, j \in DOMAIN p : p[i] = p[j] => i = j

\* DataFrame.sort_values(col, ascending=False): a reordering of the rows with
\* the key Key(row) non-increasing and NaN last; rows with equal key in either order
\* (the default sort is not a stable one)
sort_values_descending(df, Key(_)) ==
    {[k \in 1..Len(df) |-> df[p[k]]] :
        p \in {q \in [1..Len(df) -> 1..Len(df)] :
                /\ Injective(q)
                /\ \A k \in 1..(Len(df) - 1) :
                       \/ Key(df[q[k + 1]]) = RateNaN
                       \/ /\ Key(df[q[k]]) # RateNaN
                          /\ RateGe(Key(df[q[k]]), Key(df[q[k + 1]]))}}

-----------------------------------------------------------------------------
(* EmployeeAttritionAnalyzer *)

an_age_bins   == <<Num(0), Num(25), Num(30), Num(35), Num(40), Num(100)>>
an_age_labels == <<"Under 25", "25-30", "31-35", "36-40", "Over 40">>

an_tenure_bins   == <<Num(0), Num(1), Num(3), Num(7), Num(12), Num(100)>>
an_tenure_labels == <<"<1 year", "1-3 years", "4-7 years", "8-12 years", ">12 years">>

salary_bins   == <<Num(0), Num(4000), Num(5500), Num(7000), Num(10000)>>
salary_labels == <<"<$4K", "$4K-$5.5K", "$5.5K-$7K", ">$7K">>

\* df[col] = pd.cut(df[source], bins, labels)
WithCut(df, col, source, bins, labels) ==
    [i \in 1..Len(df) |-> (col :> cut(df[i][source], bins, labels)) @@ df[i]]

\* groupby(col).agg({'employee_id': 'count', 'attrition': lambda x: (x == 'Yes').sum(),
\* <mean columns>: 'mean'}) and the attrition_rate column, one row per key.
\* employee_id never is missing, so 'count' is the group's size.
RateTable(df, col, keys, mean_cols) ==
    [k \in 1..Len(keys) |->
        LET rows == Members(df, col, keys[k])
        IN  [group          |-> keys[k],
             employee_id    |-> Cardinality(rows),
             attrition      |-> Departed(df, rows),
             means          |-> [c \in mean_cols |-> Mean(df, c, rows)],
             attrition_rate |-> attrition_rate(Departed(df, rows), Cardinality(rows))]]

\* the score with the tenure of exactly one year left out of the 1-3 band
calculate_risk_score_TenureFromTwo(row) ==
    (IF Le(row.job_satisfaction, Num(2)) THEN 3
     ELSE IF row.job_satisfaction = Num(3) THEN 2 ELSE 0)
    + (IF Le(row.work_life_balance, Num(2)) THEN 3
       ELSE IF row.work_life_balance = Num(3) THEN 2 ELSE 0)
    + (IF Gt(row.years_at_company, Num(1)) /\ Le(row.years_at_company, Num(3)) THEN 2
       ELSE IF Lt(row.years_at_company, Num(1)) THEN 3 ELSE 0)
    + (IF Ge(row.performance_rating, Num(4)) THEN 1 ELSE 0)

calculate_risk_score(row) ==
    (IF Le(row.job_satisfaction, Num(2)) THEN 3
     ELSE IF row.job_satisfaction = Num(3) THEN 2 ELSE 0)
    + (IF Le(row.work_life_balance, Num(2)) THEN 3
       ELSE IF row.work_life_balance = Num(3) THEN 2 ELSE 0)
    + (IF Ge(row.years_at_company, Num(1)) /\ Le(row.years_at_company, Num(3)) THEN 2
       ELSE IF Lt(row.years_at_company, Num(1)) THEN 3 ELSE 0)
    + (IF Ge(row.performance_rating, Num(4)) THEN 1 ELSE 0)

\* the threshold one too high
HighRiskRows_Above(scored) ==
    KeepRows(scored, {i \in 1..Len(scored) : scored[i].risk_score > 6}, 1)

\* current_employees[current_employees['risk_score'] >= 6]
HighRiskRows(scored) ==
    KeepRows(scored, {i \in 1..Len(scored) : scored[i].risk_score >= 6}, 1)

\* employee_data[employee_data['attrition'] == 'No'] with its risk_score column
CurrentEmployees(df) ==
    LET current == KeepRows(df, {i \in 1..Len(df) : df[i].attrition = txt_No}, 1)
    IN  [i \in 1..Len(current) |->
            ("risk_score" :> calculate_risk_score(current[i])) @@ current[i]]

\* round(2) of num / den, in hundredths (NaN for 0 / 0)
Round2(num, den) ==
    IF den = 0 THEN RateNaN ELSE <<(200 * num + den) \div (2 * den)>>

\* groupby('department').agg({'risk_score': 'mean', 'job_satisfaction': 'mean',
\* 'work_life_balance': 'mean', 'employee_id': 'count'}).round(2)
DepartmentRisk(scored) ==
    LET keys == TextKeys(scored, "department")
    IN  [k \in 1..Len(keys) |->
            LET rows == Members(scored, "department", keys[k])
                Present(c) == Cardinality({i \in rows : scored[i][c] # NaN})
                Total == LET RECURSIVE Sum(_)
                             Sum(S) == IF S = {} THEN 0
                                       ELSE LET i == CHOOSE j \in S : TRUE
                                            IN  scored[i].risk_score + Sum(S \ {i})
                         IN  Sum(rows)
            IN  [department        |-> keys[k],
                 risk_score        |-> Round2(Total, Cardinality(rows)),
                 job_satisfaction  |-> Round2(SumCells(scored, "job_satisfaction", rows),
                                              2 * Present("job_satisfaction")),
                 work_life_balance |-> Round2(SumCells(scored, "work_life_balance", rows),
                                              2 * Present("work_life_balance")),
                 employee_id       |-> Cardinality(rows)]]

\* the analyzer's merged table: every column of performance_data joins in
AnalyzerMissingPerf ==
    [c \in performance_columns \ {"employee_id"} |->
        IF c = "promotion_ready" THEN MissingText ELSE NaN]

\* exit_survey_data['exit_reason_primary'].value_counts(): the count of each
\* reason, and the means per reason of the two ratings the report prints
ExitReasons(df) ==
    LET keys == TextKeys(df, "exit_reason_primary")
    IN  [k \in 1..Len(keys) |->
            LET rows == Members(df, "exit_reason_primary", keys[k])
            IN  [reason |-> keys[k],
                 count  |-> Cardinality(rows),
                 overall_satisfaction |->
                    Round2(SumCells(df, "overall_satisfaction", rows),
                           2 * Cardinality({i \in rows : df[i].overall_satisfaction # NaN})),
                 would_recommend_company |->
                    Round2(SumCells(df, "would_recommend_company", rows),
                           2 * Cardinality({i \in rows : df[i].would_recommend_company # NaN}))]]

\* groupby('department') of calculate_attrition_rates, columns renamed
DepartmentRates(df) ==
    LET keys == TextKeys(df, "department")
    IN  [k \in 1..Len(keys) |->
            LET rows == Members(df, "department", keys[k])
            IN  [department      |-> keys[k],
                 total_employees |-> Cardinality(rows),
                 departed        |-> Departed(df, rows),
                 attrition_rate  |-> attrition_rate(Departed(df, rows), Cardinality(rows))]]

InitAnalyzer ==
    /\ an_employee_data = None
    /\ an_performance_data = None
    /\ an_exit_survey_data = None
    /\ analysis_results = << >>
    /\ merged_data = None
    /\ current_employees = None
    /\ an_stage = "init"

an_files == <<employee_file, performance_file, exit_survey_file, performance_columns,
              groupby_observed>>
vis_vars == <<data, hp_attrition, vis_stage>>

\* the rows of performance_data.csv under its header
PerformanceRows ==
    [j \in 1..Len(performance_file) |->
        [c \in performance_columns |-> performance_file[j][c]]]

\* main() returns when load_data returns False
load_data ==
    /\ an_stage = "init"
    /\ an_employee_data' = IF employee_file = Unreadable THEN None ELSE employee_file
    /\ an_performance_data' =
           IF employee_file = Unreadable \/ performance_file = Unreadable THEN None
           ELSE PerformanceRows
    /\ an_exit_survey_data' =
           IF Unreadable \in {employee_file, performance_file, exit_survey_file} THEN None
           ELSE exit_survey_file
    /\ an_stage' = IF Unreadable \in {employee_file, performance_file, exit_survey_file}
                   THEN "aborted" ELSE "loaded"
    /\ UNCHANGED <<an_files, analysis_results, merged_data, current_employees, vis_vars,
                   prep_vars>>

\* departed_employees / total_employees raises ZeroDivisionError on no rows
calculate_attrition_rates ==
    /\ an_stage = "loaded"
    /\ IF Len(an_employee_data) = 0
       THEN /\ an_stage' = "crashed"
            /\ UNCHANGED analysis_results
       ELSE /\ an_stage' = "rates"
            /\ \E dept_attrition \in sort_values_descending(
                                        DepartmentRates(an_employee_data),
                                        LAMBDA r : r.attrition_rate) :
                   analysis_results' =
                       [overall_rate |->
                            attrition_rate(Departed(an_employee_data,
                                                    1..Len(an_employee_data)),
                                           Len(an_employee_data)),
                        department_rates |-> dept_attrition] @@ analysis_results
    /\ UNCHANGED <<an_files, an_employee_data, an_performance_data, an_exit_survey_data,
                   merged_data, current_employees, vis_vars, prep_vars>>

analyze_demographics ==
    /\ an_stage = "rates"
    /\ LET df == WithCut(an_employee_data, "age_group", "age", an_age_bins, an_age_labels)
       IN  /\ an_employee_data' = df
           /\ analysis_results' =
                  [age_analysis |->
                       RateTable(df, "age_group",
                                 CategoryKeys(df, "age_group", an_age_labels,
                                              groupby_observed), {}),
                   gender_analysis |->
                       RateTable(df, "gender", TextKeys(df, "gender"), {})]
                  @@ analysis_results
    /\ an_stage' = "demographics"
    /\ UNCHANGED <<an_files, an_performance_data, an_exit_survey_data, merged_data,
                   current_employees, vis_vars, prep_vars>>

\* len(early_tenure) is the divisor of the first-3-years rate: with no such
\* row ZeroDivisionError is raised, after tenure_group was added
analyze_tenure_impact ==
    /\ an_stage = "demographics"
    /\ LET df == WithCut(an_employee_data, "tenure_group", "years_at_company",
                         an_tenure_bins, an_tenure_labels)
           early_tenure == {i \in 1..Len(df) : Le(df[i].years_at_company, Num(3))}
       IN  /\ an_employee_data' = df
           /\ IF early_tenure = {}
              THEN /\ an_stage' = "crashed"
                   /\ UNCHANGED analysis_results
              ELSE /\ an_stage' = "tenure"
                   /\ analysis_results' =
                          [tenure_analysis |->
                               RateTable(df, "tenure_group",
                                         CategoryKeys(df, "tenure_group", an_tenure_labels,
                                                      groupby_observed),
                                         {"monthly_income"})]
                          @@ analysis_results
    /\ UNCHANGED <<an_files, an_performance_data, an_exit_survey_data, merged_data,
                   current_employees, vis_vars, prep_vars>>

analyze_compensation_satisfaction ==
    /\ an_stage = "tenure"
    /\ LET df == WithCut(an_employee_data, "salary_range", "monthly_income",
                         salary_bins, salary_labels)
       IN  /\ an_employee_data' = df
           /\ analysis_results' =
                  [salary_analysis |->
                       RateTable(df, "salary_range",
                                 CategoryKeys(df, "salary_range", salary_labels,
                                              groupby_observed),
                                 {"job_satisfaction", "work_life_balance"}),
                   satisfaction_analysis |->
                       RateTable(df, "job_satisfaction",
                                 NumericKeys(df, "job_satisfaction"), {})]
                  @@ analysis_results
    /\ an_stage' = "compensation"
    /\ UNCHANGED <<an_files, an_performance_data, an_exit_survey_data, merged_data,
                   current_employees, vis_vars, prep_vars>>

\* merge(performance_data, on='employee_id', how='left') gives a column that is
\* in both tables the suffixes _x and _y: with performance_rating in the
\* performance header, groupby('performance_rating') raises KeyError
analyze_performance_impact ==
    /\ an_stage = "compensation"
    /\ IF "performance_rating" \in performance_columns
       THEN /\ an_stage' = "crashed"
            /\ UNCHANGED <<analysis_results, merged_data>>
       ELSE LET merged == merge_left(an_employee_data, an_performance_data,
                                     AnalyzerMissingPerf, 1)
            IN  /\ an_stage' = "performance"
                /\ merged_data' = merged
                /\ analysis_results' =
                       [performance_analysis |->
                            RateTable(merged, "performance_rating",
                                      NumericKeys(merged, "performance_rating"),
                                      {"monthly_income", "goals_met"}),
                        high_performers_left |->
                            KeepRows(merged,
                                     {i \in 1..Len(merged) :
                                        /\ merged[i].attrition = txt_Yes
                                        /\ Ge(merged[i].performance_rating, Num(4))}, 1)]
                       @@ analysis_results
    /\ UNCHANGED <<an_files, an_employee_data, an_performance_data, an_exit_survey_data,
                   current_employees, vis_vars, prep_vars>>

analyze_exit_reasons ==
    /\ an_stage = "performance"
    /\ analysis_results' =
           [exit_reasons |-> ExitReasons(an_exit_survey_data)] @@ analysis_results
    /\ an_stage' = "exit_reasons"
    /\ UNCHANGED <<an_files, an_employee_data, an_performance_data, an_exit_survey_data,
                   merged_data, current_employees, vis_vars, prep_vars>>

\* With no current employee, apply(axis=1) returns an empty frame and not a
\* column: the assignment to risk_score raises or leaves an empty column,
\* by the pandas in use.
identify_high_risk_employees ==
    /\ an_stage = "exit_reasons"
    /\ LET scored == CurrentEmployees(an_employee_data)
       IN  \/ /\ Len(scored) = 0
              /\ an_stage' = "crashed"
              /\ UNCHANGED <<analysis_results, current_employees>>
           \/ /\ an_stage' = "high_risk"
              /\ current_employees' = scored
              /\ \E high_risk \in sort_values_descending(HighRiskRows(scored),
                                                         LAMBDA r : <<r.risk_score, 1>>) :
                     analysis_results' =
                         [high_risk_employees |-> high_risk,
                          department_risk |-> DepartmentRisk(scored)]
                         @@ analysis_results
    /\ UNCHANGED <<an_files, an_employee_data, an_performance_data, an_exit_survey_data,
                   merged_data, vis_vars, prep_vars>>

-----------------------------------------------------------------------------
(* HRDataVisualizer *)

\* high_performers.groupby('department')['attrition'].apply(
\*     lambda x: (x == 'Yes').mean() * 100)
HighPerformerRates(df) ==
    LET high_performers ==
            KeepRows(df, {i \in 1..Len(df) : Ge(df[i].performance_rating, Num(4))}, 1)
        keys == TextKeys(high_performers, "department")
    IN  [k \in 1..Len(keys) |->
            LET rows == Members(high_performers, "department", keys[k])
            IN  [department     |-> keys[k],
                 employee_id    |-> Cardinality(rows),
                 attrition_rate |-> attrition_rate(Departed(high_performers, rows),
                                                   Cardinality(rows))]]

\* the table of the high-performer chart; no table is built (it stays None)
\* when no row has a rating of 4 or more
create_performance_correlation_chart ==
    /\ vis_stage = "constructed"
    /\ vis_stage' = "charted"
    /\ IF \E i \in 1..Len(data) : Ge(data[i].performance_rating, Num(4))
       THEN hp_attrition' \in sort_values_descending(HighPerformerRates(data),
                                                     LAMBDA r : r.attrition_rate)
       ELSE UNCHANGED hp_attrition
    /\ UNCHANGED <<data, an_files, an_employee_data, an_performance_data,
                   an_exit_survey_data, analysis_results, merged_data, current_employees,
                   an_stage, prep_vars>>

-----------------------------------------------------------------------------
(* Input files *)

MaxRows == 3
MaxId == 2
MaxJoinRows == 2

Txt_dev == <<"D", "e", "v">>

Txt_date == <<"2", "0", "2", "3", "-", "0", "6", "-", "3", "0">>

DefaultEmployee(i) ==
    [employee_id        |-> i,
     department         |-> txt_IT,
     job_role           |-> Txt_dev,
     gender             |-> <<"M">>,
     attrition          |-> txt_No,
     attrition_date     |-> MissingText,
     age                |-> Num(30),
     monthly_income     |-> Num(3000 + 1000 * i),
     years_at_company   |-> Num(5),
     performance_rating |-> Num(3),
     job_satisfaction   |-> Num(4),
     work_life_balance  |-> Num(4),
     distance_from_home |-> Num(5)]

Tables(Row(_, _), Choices, sizes) ==
    UNION {{[i \in 1..n |-> Row(i, pick[i])] : pick \in [1..n -> Choices]} : n \in sizes}

\* one column under test: missing, one below the range, the lower bound,
\* an inner value, one above the range
TestCells(col) ==
    {NaN,
     <<numeric_validations[col][1][1] - 2>>,
     numeric_validations[col][1],
     DefaultEmployee(1)[col],
     <<numeric_validations[col][2][1] + 2>>}

ColumnTables ==
    UNION {LET Row(i, c) == [DefaultEmployee(i) EXCEPT ![col] = c]
           IN  Tables(Row, TestCells(col), 0..MaxRows) : col \in NumericFields}

\* repeated identifiers; the rows differ in monthly_income
IdTables ==
    LET Row(i, id) == [DefaultEmployee(i) EXCEPT !.employee_id = id]
    IN  Tables(Row, 1..MaxId, 0..MaxRows)

FeatureChoices ==
    [job_satisfaction   : {Num(2), Num(3)},
     work_life_balance  : {Num(2), Num(3)},
     years_at_company   : {Num(0), Num(1), Num(3), Num(4)},
     performance_rating : {Num(3), Num(4)}]

\* row i with the fields of f in place of its own
With(i, f) == [c \in DOMAIN DefaultEmployee(i) |->
                  IF c \in DOMAIN f THEN f[c] ELSE DefaultEmployee(i)[c]]

\* a row of FeatureChoices, and a second row (one row has no quartiles)
FeatureTables == {<<With(1, f), DefaultEmployee(2)>> : f \in FeatureChoices}

Txt_research_development ==
    <<"r", "e", "s", "e", "a", "r", "c", "h", " ", "&", " ",
      "D", "E", "V", "E", "L", "O", "P", "M", "E", "N", "T">>

TextChoices ==
    [department : {<<" ", "i", "t">>, <<"H", "R">>, <<"r", "&", "d">>,
                   <<"o", "p", "s", " ">>, MissingText, <<" ">>, <<"n", "/", "a">>,
                   Txt_research_development},
     gender     : {<<"m">>, <<"F", "e", "m", "a", "l", "e">>},
     attrition  : {<<"y", "e", "s">>, <<"N", "O", " ">>, txt_Yes},
     job_role   : {<<"t", "e", "a", "m", " ", "l", "e", "a", "d">>, Txt_dev}]

TextTables == {<<With(1, f), DefaultEmployee(2)>> : f \in TextChoices}

\* the rows of one table differ in goals_met
DefaultPerformance(j) ==
    [employee_id        |-> j,
     review_date        |-> Txt_date,
     performance_rating |-> Num(4),
     goals_met          |-> Num(70 + 10 * j),
     promotion_ready    |-> <<"y", "e", "s">>]

PerformanceTables ==
    LET Row(j, id) == [DefaultPerformance(j) EXCEPT !.employee_id = id]
    IN  Tables(Row, 1..MaxId, 0..MaxJoinRows)

\* the rows of one table differ in overall_satisfaction
DefaultExit(j) ==
    [employee_id             |-> j,
     exit_date               |-> Txt_date,
     exit_reason_primary     |-> <<"P", "a", "y">>,
     overall_satisfaction    |-> Num(j),
     would_recommend_company |-> Num(0)]

ExitTables ==
    LET Row(j, id) == [DefaultExit(j) EXCEPT !.employee_id = id]
    IN  Tables(Row, 1..MaxId, 0..MaxJoinRows)

\* distances at the edges of the commute bins, and every rating
CategoryChoices ==
    [distance_from_home : {Num(10), Num(11), Num(20), Num(21), Num(30), Num(31)},
     performance_rating : {Num(1), Num(2), Num(3), Num(4), Num(5)}]

CategoryTables == {<<With(1, f), DefaultEmployee(2)>> : f \in CategoryChoices}

\* a leap day, a day no month has, a text that is no date, a missing cell
DateChoices ==
    {<<"2", "0", "2", "4", "-", "0", "2", "-", "2", "9">>,
     <<"2", "0", "2", "3", "-", "0", "2", "-", "3", "0">>,
     <<"u", "n", "k", "n", "o", "w", "n">>,
     MissingText}

\* a departed employee with a date of DateChoices, and one with a date
DateTables ==
    {<<[DefaultEmployee(1) EXCEPT !.attrition = txt_Yes, !.attrition_date = d],
       [DefaultEmployee(2) EXCEPT !.attrition = txt_Yes, !.attrition_date = Txt_date]>> :
        d \in DateChoices}

DatePerformanceTables ==
    {<<[DefaultPerformance(1) EXCEPT !.review_date = d], DefaultPerformance(2)>> :
        d \in DateChoices}

DateExitTables ==
    {<<[DefaultExit(1) EXCEPT !.exit_date = d], DefaultExit(2)>> : d \in DateChoices}

EmployeeTables ==
    ColumnTables \cup IdTables \cup FeatureTables \cup TextTables \cup CategoryTables

\* the columns of a complete employee_data.csv
EmployeeHeader == DOMAIN DefaultEmployee(1)

\* the columns clean_employee_data names: the key of drop_duplicates and the
\* fields of numeric_validations
RequiredFields == {"employee_id"} \cup NumericFields

\* a file without the column col.  A column absent from employee_columns has
\* no cells: the rows of the model hold NaN (0 for the identifier) in its
\* place, and a read of the column raises KeyError in the action that reads it.
WithoutColumn(df, col) ==
    [i \in 1..Len(df) |->
        [df[i] EXCEPT ![col] = IF col = "employee_id" THEN 0 ELSE NaN]]

InitFiles ==
    \/ /\ employee_file \in EmployeeTables
       /\ employee_columns = EmployeeHeader
       /\ performance_file = <<DefaultPerformance(1)>>
       /\ exit_survey_file = <<DefaultExit(1)>>
    \/ /\ employee_file \in {t \in IdTables : Len(t) <= MaxJoinRows}
       /\ employee_columns = EmployeeHeader
       /\ \/ /\ performance_file \in PerformanceTables
             /\ exit_survey_file = <<DefaultExit(1)>>
          \/ /\ performance_file = <<DefaultPerformance(1)>>
             /\ exit_survey_file \in ExitTables
    \/ /\ employee_file \in DateTables
       /\ employee_columns = EmployeeHeader
       /\ performance_file \in DatePerformanceTables
       /\ exit_survey_file \in DateExitTables
    \/ /\ employee_file \in {<<DefaultEmployee(1), DefaultEmployee(2)>>, Unreadable}
       /\ employee_columns = EmployeeHeader
       /\ performance_file \in {<<DefaultPerformance(1)>>, Unreadable}
       /\ exit_survey_file \in {<<DefaultExit(1)>>, Unreadable}
    \/ /\ \E col \in RequiredFields :
              /\ employee_columns = EmployeeHeader \ {col}
              /\ employee_file = WithoutColumn(<<DefaultEmployee(1), DefaultEmployee(2)>>, col)
       /\ performance_file = <<DefaultPerformance(1)>>
       /\ exit_survey_file = <<DefaultExit(1)>>

-----------------------------------------------------------------------------
(* HRDataPreprocessor *)

InitPreprocessor ==
    /\ employee_data = None
    /\ performance_data = None
    /\ exit_survey_data = None
    /\ processed_data = None
    /\ data_quality_report = << >>
    /\ removed_duplicates = 0
    /\ stage = "init"

\* a load whose failure does not end the run
load_raw_data_Continues ==
    /\ stage = "init"
    /\ employee_data' = IF employee_file = Unreadable THEN None ELSE employee_file
    /\ performance_data' =
           IF employee_file = Unreadable \/ performance_file = Unreadable THEN None
           ELSE performance_file
    /\ exit_survey_data' =
           IF Unreadable \in {employee_file, performance_file, exit_survey_file} THEN None
           ELSE exit_survey_file
    /\ stage' = "loaded"
    /\ UNCHANGED <<employee_columns, employee_file, performance_file, exit_survey_file,
                   processed_data, data_quality_report, removed_duplicates>>
    /\ UNCHANGED analysis_vars

\* read_csv in turn; the first unreadable file raises, and what was read
\* before it stays assigned
load_raw_data ==
    /\ stage = "init"
    /\ employee_data' = IF employee_file = Unreadable THEN None ELSE employee_file
    /\ performance_data' =
           IF employee_file = Unreadable \/ performance_file = Unreadable THEN None
           ELSE performance_file
    /\ exit_survey_data' =
           IF Unreadable \in {employee_file, performance_file, exit_survey_file} THEN None
           ELSE exit_survey_file
    /\ stage' = IF Unreadable \in {employee_file, performance_file, exit_survey_file}
                THEN "aborted" ELSE "loaded"
    /\ UNCHANGED <<employee_columns, employee_file, performance_file, exit_survey_file, processed_data,
                   data_quality_report, removed_duplicates>>
    /\ UNCHANGED analysis_vars

\* the number of rows df[mask] keeps
CountRows(df, Mask(_)) == Cardinality({i \in 1..Len(df) : Mask(df[i])})

\* the columns validate_data_quality reads with self.employee_data[...]
\* the columns of the three files that hold numbers
NumericColumns ==
    NumericFields \cup {"goals_met", "overall_satisfaction", "would_recommend_company"}

\* DataFrame.isnull().sum().to_dict() over the columns of the file
isnull_sum(df, columns) ==
    [col \in columns |->
        Cardinality({i \in 1..Len(df) :
            IF col = "employee_id" THEN FALSE
            ELSE IF col \in NumericColumns THEN df[i][col] = NaN
            ELSE df[i][col] = MissingText})]

validate_columns == {"employee_id", "age", "monthly_income", "years_at_company",
                     "performance_rating"}

\* a column it reads being absent raises KeyError: the run ends
validate_data_quality_KeyError ==
    /\ stage = "loaded"
    /\ ~(validate_columns \subseteq employee_columns)
    /\ stage' = "crashed_validate"
    /\ UNCHANGED <<employee_columns, employee_file, performance_file, exit_survey_file,
                   employee_data, performance_data, exit_survey_data, processed_data,
                   data_quality_report, removed_duplicates>>
    /\ UNCHANGED analysis_vars

validate_data_quality ==
    /\ stage = "loaded"
    /\ validate_columns \subseteq employee_columns
    /\ data_quality_report' =
        [employee_data |->
            [total_records |-> Len(employee_data),
             duplicate_employees |-> Len(employee_data) - Len(drop_duplicates(employee_data)),
             missing_values |-> isnull_sum(employee_data, employee_columns),
             invalid_ages |->
                LET Mask(r) == Lt(r.age, Num(18)) \/ Gt(r.age, Num(70))
                IN  CountRows(employee_data, Mask),
             invalid_salaries |->
                LET Mask(r) == Lt(r.monthly_income, Num(1000)) \/ Gt(r.monthly_income, Num(20000))
                IN  CountRows(employee_data, Mask),
             invalid_tenure |->
                LET Mask(r) == Lt(r.years_at_company, Num(0)) \/ Gt(r.years_at_company, Num(50))
                IN  CountRows(employee_data, Mask),
             invalid_ratings |->
                LET Mask(r) == Lt(r.performance_rating, Num(1)) \/ Gt(r.performance_rating, Num(5))
                IN  CountRows(employee_data, Mask)],
         performance_data |->
            [total_records |-> Len(performance_data),
             missing_values |-> isnull_sum(performance_data, DOMAIN DefaultPerformance(1)),
             invalid_ratings |->
                LET Mask(r) == Lt(r.performance_rating, Num(1)) \/ Gt(r.performance_rating, Num(5))
                IN  CountRows(performance_data, Mask),
             invalid_goals |->
                LET Mask(r) == Lt(r.goals_met, Num(0)) \/ Gt(r.goals_met, Num(100))
                IN  CountRows(performance_data, Mask)],
         exit_survey_data |->
            [total_records |-> Len(exit_survey_data),
             missing_values |-> isnull_sum(exit_survey_data, DOMAIN DefaultExit(1)),
             invalid_ratings |->
                LET Mask(r) == Lt(r.overall_satisfaction, Num(1))
                               \/ Gt(r.overall_satisfaction, Num(5))
                IN  CountRows(exit_survey_data, Mask)]]
    /\ stage' = "validated"
    /\ UNCHANGED <<employee_columns, employee_file, performance_file, exit_survey_file, employee_data,
                   performance_data, exit_survey_data, processed_data, removed_duplicates>>
    /\ UNCHANGED analysis_vars

\* the columns clean_employee_data reads without asking whether they exist:
\* the subset of drop_duplicates and the columns of fill_values
clean_columns == {"employee_id"} \cup ImputedFields

\* clean_employee_data is a method of its own: the pipeline calls it after
\* validate_data_quality, a caller may call it on the loaded table.  One of
\* clean_columns being absent raises KeyError; a column of numeric_validations
\* being absent is skipped by "if col in df.columns".
clean_employee_data ==
    /\ stage \in {"loaded", "validated"}
    /\ IF clean_columns \subseteq employee_columns
       THEN /\ employee_data' = CleanEmployee(employee_data)
            /\ removed_duplicates' = Len(employee_data) - Len(drop_duplicates(employee_data))
            /\ stage' = "cleaned_employee"
       ELSE /\ stage' = "crashed_clean"
            /\ UNCHANGED <<employee_data, removed_duplicates>>
    /\ UNCHANGED <<employee_columns, employee_file, performance_file, exit_survey_file, performance_data,
                   exit_survey_data, processed_data, data_quality_report>>
    /\ UNCHANGED analysis_vars

clean_performance_data ==
    /\ stage = "cleaned_employee"
    /\ performance_data' = CleanPerformance(performance_data)
    /\ stage' = "cleaned_performance"
    /\ UNCHANGED <<employee_columns, employee_file, performance_file, exit_survey_file, employee_data,
                   exit_survey_data, processed_data, data_quality_report,
                   removed_duplicates>>
    /\ UNCHANGED analysis_vars

clean_exit_survey_data ==
    /\ stage = "cleaned_performance"
    /\ exit_survey_data' = CleanExitSurvey(exit_survey_data)
    /\ stage' = "cleaned"
    /\ UNCHANGED <<employee_columns, employee_file, performance_file, exit_survey_file, employee_data,
                   performance_data, processed_data, data_quality_report,
                   removed_duplicates>>
    /\ UNCHANGED analysis_vars

\* the columns engineer_features reads
engineer_columns == {"age", "years_at_company", "monthly_income", "distance_from_home",
                     "job_satisfaction", "work_life_balance", "performance_rating",
                     "job_role"}

\* a missing column (KeyError) or pd.qcut raising ends the run: nothing is stored
engineer_features ==
    /\ stage = "cleaned"
    /\ IF \/ ~(engineer_columns \subseteq employee_columns)
          \/ qcut_raises(Column(employee_data, "monthly_income"))
       THEN /\ stage' = "crashed"
            /\ UNCHANGED employee_data
       ELSE /\ stage' = "engineered"
            /\ employee_data' = EngineerFeatures(employee_data)
    /\ UNCHANGED <<employee_columns, employee_file, performance_file, exit_survey_file, performance_data,
                   exit_survey_data, processed_data, data_quality_report,
                   removed_duplicates>>
    /\ UNCHANGED analysis_vars

merge_datasets ==
    /\ stage = "engineered"
    /\ processed_data' = MergeDatasets(employee_data, performance_data, exit_survey_data)
    /\ stage' = "merged"
    /\ UNCHANGED <<employee_columns, employee_file, performance_file, exit_survey_file, employee_data,
                   performance_data, exit_survey_data, data_quality_report,
                   removed_duplicates>>
    /\ UNCHANGED analysis_vars

\* the columns of the tracked ones that generate_data_summary reads
summary_columns == {"attrition", "age", "gender", "department", "monthly_income",
                    "performance_rating", "job_satisfaction", "work_life_balance",
                    "years_at_company"}

\* the statistics are printed and returned, nothing is stored; the attrition
\* rate divides by len(df), and a column it reads being absent raises KeyError
generate_data_summary ==
    /\ stage = "merged"
    /\ stage' = IF processed_data = None THEN "summarized"
                ELSE IF \/ Len(processed_data) = 0
                        \/ ~(summary_columns \subseteq employee_columns)
                     THEN "crashed_summary"
                ELSE "summarized"
    /\ UNCHANGED <<employee_columns, employee_file, performance_file, exit_survey_file,
                   employee_data, performance_data, exit_survey_data, processed_data,
                   data_quality_report, removed_duplicates>>
    /\ UNCHANGED analysis_vars

\* the tables are written with to_csv; whatever makedirs, to_csv or open
\* raises (a directory that cannot be written, a full disk) is caught and
\* the method returns False: stage "save_failed"
save_processed_data ==
    /\ stage = "summarized"
    /\ \E written \in BOOLEAN :
           stage' = IF processed_data # None /\ written THEN "saved" ELSE "save_failed"
    /\ UNCHANGED <<employee_columns, employee_file, performance_file, exit_survey_file,
                   employee_data, performance_data, exit_survey_data, processed_data,
                   data_quality_report, removed_duplicates>>
    /\ UNCHANGED analysis_vars

\* the return of run_full_preprocessing_pipeline: False where load_raw_data
\* failed, True after the call of save_processed_data, whose value it drops
run_full_preprocessing_pipeline ==
    /\ \/ /\ stage = "aborted"
          /\ stage' = "returned_False"
       \/ /\ stage \in {"saved", "save_failed"}
          /\ stage' = "returned_True"
    /\ UNCHANGED <<employee_columns, employee_file, performance_file, exit_survey_file,
                   employee_data, performance_data, exit_survey_data, processed_data,
                   data_quality_report, removed_duplicates>>
    /\ UNCHANGED analysis_vars

PreprocessorNext ==
    \/ load_raw_data
    \/ validate_data_quality_KeyError
    \/ validate_data_quality
    \/ clean_employee_data
    \/ clean_performance_data
    \/ clean_exit_survey_data
    \/ engineer_features
    \/ merge_datasets
    \/ generate_data_summary
    \/ save_processed_data
    \/ run_full_preprocessing_pipeline

FullHeader  == {"employee_id", "performance_rating", "goals_met", "promotion_ready"}
ShortHeader == {"employee_id", "goals_met", "promotion_ready"}

\* A run of the preprocessing pipeline; the analyzer and the visualizer idle.
Init ==
    /\ InitFiles
    /\ InitPreprocessor
    /\ InitAnalyzer
    /\ performance_columns = FullHeader
    /\ groupby_observed = FALSE
    /\ data = None
    /\ hp_attrition = None
    /\ vis_stage = "idle"

Next == PreprocessorNext

Spec == Init /\ [][Next]_vars

-----------------------------------------------------------------------------
(* A run of the analyzer's main() and of the visualizer's chart, over the  *)
(* same files; the preprocessor idles.                                     *)

MaxGroupRows == 2
MaxRankRows == 3

\* the attributes the risk score reads, and the attrition flag
RiskChoices ==
    [job_satisfaction   : {Num(1), Num(2), Num(3), Num(4), Num(5)},
     work_life_balance  : {Num(1), Num(2), Num(3), Num(4), Num(5)},
     years_at_company   : {Num(0), Num(1), Num(2), Num(3), Num(4), Num(50)},
     performance_rating : {Num(3), Num(4), Num(5)},
     attrition          : {txt_Yes, txt_No}]

\* a row of RiskChoices, and an early-tenure row after it
RiskTables ==
    {<<With(1, f), [DefaultEmployee(2) EXCEPT !.years_at_company = Num(2)]>> :
        f \in RiskChoices}

\* scores 8, 7 and 5
RankChoices ==
    [job_satisfaction  : {Num(1), Num(3), Num(5)},
     work_life_balance : {Num(2)},
     years_at_company  : {Num(2)},
     attrition         : {txt_Yes, txt_No}]

\* several rows to rank
RankTables == Tables(With, RankChoices, 0..MaxRankRows)

\* one grouping column under test, and the attrition flag
GroupChoices ==
    [age : {NaN, Num(18), Num(25), Num(26), Num(70)}, attrition : {txt_Yes, txt_No}]
    \cup [years_at_company : {NaN, Num(0), Num(1), Num(2), Num(50)},
          attrition : {txt_Yes, txt_No}]
    \cup [monthly_income : {Num(1000), Num(4000), Num(4001), Num(20000)},
          attrition : {txt_Yes, txt_No}]
    \cup [department : {txt_IT, txt_HR, MissingText},
          performance_rating : {Num(3), Num(4)},
          attrition : {txt_Yes, txt_No}]
    \cup [gender : {<<"M">>, <<"F">>}, attrition : {txt_Yes, txt_No}]

GroupTables ==
    UNION {Tables(With, {f \in GroupChoices : DOMAIN f = cols}, 1..MaxGroupRows) :
             cols \in {DOMAIN f : f \in GroupChoices}}

InitAnalysisFiles ==
    \/ /\ employee_file \in RiskTables \cup RankTables
       /\ performance_file = <<DefaultPerformance(1)>>
       /\ exit_survey_file = <<DefaultExit(1)>>
       /\ performance_columns = ShortHeader
       /\ groupby_observed = FALSE
    \/ /\ employee_file \in GroupTables
       /\ performance_file = <<DefaultPerformance(1)>>
       /\ exit_survey_file = <<DefaultExit(1)>>
       /\ performance_columns = ShortHeader
       /\ groupby_observed \in BOOLEAN
    \/ /\ employee_file \in IdTables
       /\ performance_file \in PerformanceTables
       /\ exit_survey_file = <<DefaultExit(1), DefaultExit(2)>>
       /\ performance_columns \in {FullHeader, ShortHeader}
       /\ groupby_observed = FALSE
    \/ /\ employee_file \in {<<DefaultEmployee(1), DefaultEmployee(2)>>, Unreadable}
       /\ performance_file \in {<<DefaultPerformance(1)>>, Unreadable}
       /\ exit_survey_file \in {<<DefaultExit(1)>>, Unreadable}
       /\ performance_columns = ShortHeader
       /\ groupby_observed = FALSE

\* the visualizer is constructed over a table of the same rows
InitAnalysis ==
    /\ InitAnalysisFiles
    /\ employee_columns = EmployeeHeader
    /\ InitPreprocessor
    /\ InitAnalyzer
    /\ data = IF employee_file = Unreadable THEN <<>> ELSE employee_file
    /\ hp_attrition = None
    /\ vis_stage = "constructed"

NextAnalysis ==
    \/ load_data
    \/ calculate_attrition_rates
    \/ analyze_demographics
    \/ analyze_tenure_impact
    \/ analyze_compensation_satisfaction
    \/ analyze_performance_impact
    \/ analyze_exit_reasons
    \/ identify_high_risk_employees
    \/ create_performance_correlation_chart

SpecAnalysis == InitAnalysis /\ [][NextAnalysis]_vars

-----------------------------------------------------------------------------
(* The preprocessing pipeline and the analyzer's main() over the same       *)
(* files, any of which may be unreadable.                                  *)

\* a table every step of both programs accepts
LoadableEmployees ==
    <<With(1, [years_at_company |-> Num(2)]), DefaultEmployee(2)>>

InitLoading ==
    /\ employee_file \in {LoadableEmployees, Unreadable}
    /\ employee_columns = EmployeeHeader
    /\ performance_file \in {<<DefaultPerformance(1)>>, Unreadable}
    /\ exit_survey_file \in {<<DefaultExit(1)>>, Unreadable}
    /\ performance_columns = ShortHeader
    /\ groupby_observed \in BOOLEAN
    /\ InitPreprocessor
    /\ InitAnalyzer
    /\ data = IF employee_file = Unreadable THEN <<>> ELSE employee_file
    /\ hp_attrition = None
    /\ vis_stage = "constructed"

\* every column is in the header: no step raises KeyError
NextLoading ==
    \/ load_raw_data
    \/ validate_data_quality
    \/ clean_employee_data
    \/ clean_performance_data
    \/ clean_exit_survey_data
    \/ engineer_features
    \/ merge_datasets
    \/ NextAnalysis

SpecLoading == InitLoading /\ [][NextLoading]_vars

-----------------------------------------------------------------------------
(* Properties of the preprocessing pipeline *)

\* the stages after merge_datasets
AfterMerge == {"merged", "summarized", "crashed_summary", "saved", "save_failed",
               "returned_True"}
AfterCleanEmployee == {"cleaned_employee", "cleaned_performance", "cleaned",
                       "engineered", "crashed"} \cup AfterMerge
AfterEngineer == {"engineered"} \cup AfterMerge

\* the raw rows that are the first of their identifier, in raw order
FirstOccurrences(raw) ==
    {i \in 1..Len(raw) : \A j \in 1..(i - 1) : raw[j].employee_id # raw[i].employee_id}

\* the raw index of the k-th first occurrence
NthFirst(raw, k) ==
    CHOOSE i \in FirstOccurrences(raw) :
        Cardinality({j \in FirstOccurrences(raw) : j < i}) = k - 1

InRange(c, col) ==
    /\ c # NaN
    /\ numeric_validations[col][1][1] <= c[1]
    /\ c[1] <= numeric_validations[col][2][1]

\* C1: after clean_employee_data every row's value of every field of the
\* range table lies within the field's bounds, whatever the raw table held
\* (out-of-range and missing values included).
C1_AllNumericInRange ==
    stage \in AfterCleanEmployee =>
        \A i \in 1..Len(employee_data) : \A col \in NumericFields :
            InRange(employee_data[i][col], col)

\* C2: the merged table has exactly one row per row of the employee base
\* table, also when the performance or exit-survey table repeats an identifier.
C2_JoinCardinality ==
    stage = "merged" => Len(processed_data) = Len(employee_data)

\* C7: after engineer_features the high-risk flag of a row is true exactly
\* when job_satisfaction <= 2, or work_life_balance <= 2, or
\* 1 <= years_at_company <= 3, or performance_rating >= 4.
C7_HighRiskFlag ==
    stage \in AfterEngineer =>
        \A i \in 1..Len(employee_data) :
            LET r == employee_data[i]
            IN  r.high_risk_employee <=>
                  \/ r.job_satisfaction # NaN /\ r.job_satisfaction[1] <= 2 * 2
                  \/ r.work_life_balance # NaN /\ r.work_life_balance[1] <= 2 * 2
                  \/ /\ r.years_at_company # NaN
                     /\ 2 * 1 <= r.years_at_company[1]
                     /\ r.years_at_company[1] <= 2 * 3
                  \/ r.performance_rating # NaN /\ r.performance_rating[1] >= 2 * 4

\* a rating of 4 alone sets the flag, beside a row with none of the four
\* conditions, which is not flagged
C7_Witness ==
    /\ stage \in AfterEngineer
    /\ \E i \in 1..Len(employee_data) :
           LET r == employee_data[i]
           IN  /\ r.high_risk_employee
               /\ r.performance_rating = Num(4)
               /\ r.job_satisfaction = Num(3) /\ r.work_life_balance = Num(3)
               /\ r.years_at_company = Num(4)
    /\ \E i \in 1..Len(employee_data) :
           LET r == employee_data[i]
           IN  /\ ~r.high_risk_employee
               /\ r.performance_rating = Num(3)
               /\ r.job_satisfaction = Num(4) /\ r.work_life_balance = Num(4)
               /\ r.years_at_company = Num(5)

\* C8: capping sets a value below the range to the lower bound, a value above
\* it to the upper bound, leaves a value within the range as it is, and removes
\* no row: the cleaned table has one row per first occurrence of an identifier.
C8_Capping ==
    stage \in AfterCleanEmployee =>
        /\ Len(employee_data) = Cardinality(FirstOccurrences(employee_file))
        /\ \A k \in 1..Len(employee_data) :
               LET row == employee_file[NthFirst(employee_file, k)]
               IN  \A col \in NumericFields :
                       LET v  == row[col]
                           w  == employee_data[k][col]
                           lo == numeric_validations[col][1]
                           hi == numeric_validations[col][2]
                       IN  v # NaN =>
                             /\ v[1] < lo[1] => w = lo
                             /\ v[1] > hi[1] => w = hi
                             /\ (lo[1] <= v[1] /\ v[1] <= hi[1]) => w = v

\* one column holds a value below its range, one above and one within it
C8_Witness ==
    /\ stage = "cleaned_employee"
    /\ \E col \in NumericFields : \E i, j, k \in 1..Len(employee_file) :
           /\ Lt(employee_file[i][col], numeric_validations[col][1])
           /\ Gt(employee_file[j][col], numeric_validations[col][2])
           /\ InRange(employee_file[k][col], col)
           /\ employee_data[i][col] = numeric_validations[col][1]
           /\ employee_data[j][col] = numeric_validations[col][2]

\* C9: after clean_employee_data identifiers are unique; of every raw
\* identifier exactly one row remains, the first in raw order; the number of
\* removed rows is the raw row count minus the number of distinct identifiers.
C9_Deduplicated ==
    stage \in AfterCleanEmployee =>
        LET ids == {employee_file[i].employee_id : i \in 1..Len(employee_file)}
        IN  /\ \A i, j \in 1..Len(employee_data) :
                   employee_data[i].employee_id = employee_data[j].employee_id => i = j
            /\ {employee_data[i].employee_id : i \in 1..Len(employee_data)} = ids
            /\ \A k \in 1..Len(employee_data) :
                   LET first == employee_file[NthFirst(employee_file, k)]
                   IN  /\ employee_data[k].employee_id = first.employee_id
                       /\ InRange(first.monthly_income, "monthly_income")
                            => employee_data[k].monthly_income = first.monthly_income
            /\ removed_duplicates = Len(employee_file) - Cardinality(ids)

\* an identifier occurs twice, with another identifier between the two
C9_Witness ==
    /\ stage = "cleaned_employee"
    /\ Len(employee_file) = 3
    /\ employee_file[1].employee_id = employee_file[3].employee_id
    /\ employee_file[1].employee_id # employee_file[2].employee_id
    /\ removed_duplicates = 1
    /\ Len(employee_data) = 2

\* C10: every missing value of the four imputed fields is replaced by the
\* field's median over the column as it is after capping, values that are not
\* missing are unchanged by imputation, and afterwards none of the four fields
\* has a missing value in any row.
C10_Imputed ==
    stage \in AfterCleanEmployee =>
        LET capped == CapOutliers(CleanText(drop_duplicates(employee_file)))
        IN  \A i \in 1..Len(employee_data) : \A col \in ImputedFields :
                /\ employee_data[i][col] # NaN
                /\ capped[i][col] = NaN
                     => employee_data[i][col] = median(Column(capped, col))
                /\ capped[i][col] # NaN => employee_data[i][col] = capped[i][col]

-----------------------------------------------------------------------------
(* Properties of the analyzer and of the visualizer *)

Has(key) == key \in DOMAIN analysis_results

RECURSIVE SumCounts(_, _)
\* the sum of the per-group counts of a table
SumCounts(table, field) ==
    IF Len(table) = 0 THEN 0 ELSE Head(table)[field] + SumCounts(Tail(table), field)

NoEmptyGroup(table) ==
    \A k \in 1..Len(table) :
        table[k].employee_id > 0 /\ table[k].attrition_rate # RateNaN

\* C3: in every attrition-rate table over a grouping key (age_group,
\* tenure_group, salary_range; department among the high performers) no group
\* of zero population appears and no listed rate is NaN.
C3_NoEmptyGroups ==
    /\ Has("age_analysis") => NoEmptyGroup(analysis_results.age_analysis)
    /\ Has("tenure_analysis") => NoEmptyGroup(analysis_results.tenure_analysis)
    /\ Has("salary_analysis") => NoEmptyGroup(analysis_results.salary_analysis)
    /\ hp_attrition # None => NoEmptyGroup(hp_attrition)

\* every value of the table is within the cleaning range table and no
\* grouping key is missing
ValidEmployeeTable(df) ==
    \A i \in 1..Len(df) :
        /\ \A col \in NumericFields : InRange(df[i][col], col)
        /\ df[i].department # MissingText
        /\ df[i].gender # MissingText

\* C4: for every grouping of the analyzer, over a table whose values lie in
\* the valid ranges, the per-group employee counts add up to the row count.
C4_Partition ==
    (DOMAIN analysis_results # {} /\ ValidEmployeeTable(an_employee_data)) =>
        LET n == Len(an_employee_data)
        IN  /\ Has("department_rates") =>
                   SumCounts(analysis_results.department_rates, "total_employees") = n
            /\ Has("age_analysis") =>
                   SumCounts(analysis_results.age_analysis, "employee_id") = n
            /\ Has("gender_analysis") =>
                   SumCounts(analysis_results.gender_analysis, "employee_id") = n
            /\ Has("tenure_analysis") =>
                   SumCounts(analysis_results.tenure_analysis, "employee_id") = n
            /\ Has("salary_analysis") =>
                   SumCounts(analysis_results.salary_analysis, "employee_id") = n
            /\ Has("satisfaction_analysis") =>
                   SumCounts(analysis_results.satisfaction_analysis, "employee_id") = n

\* the rows of the analyzer's table with attrition == 'No', by index
EmployedRows == {i \in 1..Len(an_employee_data) : an_employee_data[i].attrition = txt_No}

\* the index of the k-th employed row
NthEmployed(k) ==
    CHOOSE i \in EmployedRows : Cardinality({j \in EmployedRows : j < i}) = k - 1

\* the score as the specification states it, on cells that count halves
StatedScore(js, wlb, years, rating) ==
    (IF js <= 4 THEN 3 ELSE IF js = 6 THEN 2 ELSE 0)
    + (IF wlb <= 4 THEN 3 ELSE IF wlb = 6 THEN 2 ELSE 0)
    + (IF years < 2 THEN 3 ELSE IF 2 <= years /\ years <= 6 THEN 2 ELSE 0)
    + (IF rating >= 8 THEN 1 ELSE 0)

C6_HighRiskList ==
    an_stage = "high_risk" =>
        LET high_risk == analysis_results.high_risk_employees
            expected  == {current_employees[i] : i \in
                            {j \in 1..Len(current_employees) :
                                current_employees[j].risk_score >= 6}}
        IN  /\ {high_risk[k] : k \in 1..Len(high_risk)} = expected
            /\ Len(high_risk) = Cardinality(expected)
            /\ \A k \in 1..Len(high_risk) : high_risk[k].attrition = txt_No
            /\ \A k \in 1..(Len(high_risk) - 1) :
                   high_risk[k].risk_score >= high_risk[k + 1].risk_score

\* two listed rows of different scores, a row of score exactly 6 listed, and
\* an employed row of score 5 left out
C6_Witness ==
    /\ an_stage = "high_risk"
    /\ Len(analysis_results.high_risk_employees) = 2
    /\ analysis_results.high_risk_employees[1].risk_score = 8
    /\ analysis_results.high_risk_employees[2].risk_score = 7
    /\ \E i \in 1..Len(current_employees) : current_employees[i].risk_score = 5
    /\ current_employees[1].risk_score = 7

-----------------------------------------------------------------------------
(* Properties of clean_employee_data as an operation of its own *)

\* C11: cleaning an already cleaned table again, directly or after it was
\* exported with to_csv and read back with read_csv, gives the same rows with
\* the same value in every cleaned field.
C11_Idempotent ==
    stage = "cleaned_employee" =>
        /\ CleanEmployee(employee_data) = employee_data
        /\ CleanEmployee(read_csv(to_csv(employee_data))) = employee_data

\* C12: clean_employee_data does not end in an error when every required
\* field is in the schema, whatever the values of the rows, and it ends in
\* an error when a required field (employee_id or a field of the range
\* table) is absent.
C12_RequiredFields ==
    /\ stage = "crashed_clean" => ~(RequiredFields \subseteq employee_columns)
    /\ stage = "cleaned_employee" => RequiredFields \subseteq employee_columns

-----------------------------------------------------------------------------
(* Properties of loading *)

LoadFails == Unreadable \in {employee_file, performance_file, exit_survey_file}

\* C13: when one of the three files cannot be loaded, the pipeline stops at
\* the load (run_full_preprocessing_pipeline returns False): no report is
\* made, nothing is cleaned, engineered or merged; and the analyzer's main()
\* runs no analysis step after its failed load_data.
C13_AbortOnLoadFailure ==
    LoadFails =>
        /\ stage \in {"init", "aborted"}
        /\ data_quality_report = << >>
        /\ removed_duplicates = 0
        /\ processed_data = None
        /\ employee_data \in {None, employee_file}
        /\ performance_data \in {None, performance_file}
        /\ exit_survey_data = None
        /\ an_stage \in {"init", "aborted"}
        /\ analysis_results = << >>
        /\ merged_data = None
        /\ current_employees = None

\* both programs have stopped at the load: the employee file was read, the
\* performance file was not
C13_Witness ==
    /\ employee_file # Unreadable
    /\ performance_file = Unreadable
    /\ stage = "aborted"
    /\ an_stage = "aborted"
    /\ employee_data = employee_file

-----------------------------------------------------------------------------
(* Properties of the department table *)

\* C14: the department table of calculate_attrition_rates lists every
\* department once, with total_employees the number of rows of the
\* department, departed the number of those with attrition 'Yes' and
\* attrition_rate = 100 * departed / total_employees, in non-increasing order
\* of attrition_rate: the first row has the maximum rate.
C14_DepartmentRates ==
    Has("department_rates") =>
        LET t  == analysis_results.department_rates
            df == an_employee_data
            of(d) == {i \in 1..Len(df) : df[i].department = d}
        IN  /\ {t[k].department : k \in 1..Len(t)}
                   = {df[i].department : i \in 1..Len(df)} \ {MissingText}
            /\ \A j, k \in 1..Len(t) : t[j].department = t[k].department => j = k
            /\ \A k \in 1..Len(t) :
                   /\ t[k].total_employees = Cardinality(of(t[k].department))
                   /\ t[k].departed =
                          Cardinality({i \in of(t[k].department) : df[i].attrition = txt_Yes})
                   /\ t[k].attrition_rate = <<100 * t[k].departed, t[k].total_employees>>
            /\ \A j, k \in 1..Len(t) :
                   j < k => t[j].departed * t[k].total_employees
                              >= t[k].departed * t[j].total_employees

\* two departments of different rates, the higher one first
C14_Witness ==
    /\ Has("department_rates")
    /\ Len(analysis_results.department_rates) = 2
    /\ analysis_results.department_rates[1].attrition_rate = <<100, 1>>
    /\ analysis_results.department_rates[2].attrition_rate = <<0, 1>>
    /\ an_employee_data[1].department = analysis_results.department_rates[2].department

-----------------------------------------------------------------------------
(* Properties of the derived fields of engineer_features *)

\* the interval (lo, hi] a label of pd.cut stands for
IntervalOf(label, bins, labels) ==
    LET k == CHOOSE j \in DOMAIN labels : labels[j] = label
    IN  <<bins[k], bins[k + 1]>>

\* lo < c <= hi
Within(c, interval) == Gt(c, interval[1]) /\ Le(c, interval[2])

StatedAgeIntervals ==
    {<<Num(0), Num(25)>>, <<Num(25), Num(30)>>, <<Num(30), Num(35)>>,
     <<Num(35), Num(40)>>, <<Num(40), Num(100)>>}

\* C15: engineer_features gives an employee of age a the label of the one
\* interval among (0,25], (25,30], (30,35], (35,40], (40,100] that contains a.
C15_AgeGroup ==
    stage \in AfterEngineer =>
        \A i \in 1..Len(employee_data) :
            LET r == employee_data[i]
            IN  (\E v \in StatedAgeIntervals : Within(r.age, v)) =>
                    /\ r.age_group # NoCategory
                    /\ IntervalOf(r.age_group, age_bins, age_labels) \in StatedAgeIntervals
                    /\ Within(r.age, IntervalOf(r.age_group, age_bins, age_labels))

StatedTenureIntervals ==
    {<<Num(0), Num(1)>>, <<Num(1), Num(3)>>, <<Num(3), Num(7)>>,
     <<Num(7), Num(12)>>, <<Num(12), Num(100)>>}

\* C16: engineer_features gives an employee of tenure t the label of the one
\* interval among (0,1], (1,3], (3,7], (7,12], (12,100] that contains t.
C16_TenureGroup ==
    stage \in AfterEngineer =>
        \A i \in 1..Len(employee_data) :
            LET r == employee_data[i]
            IN  (\E v \in StatedTenureIntervals : Within(r.years_at_company, v)) =>
                    /\ r.tenure_group # NoCategory
                    /\ IntervalOf(r.tenure_group, tenure_bins, tenure_labels)
                           \in StatedTenureIntervals
                    /\ Within(r.years_at_company,
                              IntervalOf(r.tenure_group, tenure_bins, tenure_labels))

\* the position of a quartile label
QuartileOf(label) == CHOOSE j \in DOMAIN quartile_labels : quartile_labels[j] = label

\* C17: for every non-empty cleaned table engineer_features gives every row
\* one of the four salary_quartile labels, a higher income never a lower
\* quartile, and the four quartiles hold the same number of rows to within one.
C17_SalaryQuartile ==
    (/\ stage \in {"engineered", "merged", "crashed"}
     /\ employee_columns = EmployeeHeader
     /\ Len(employee_data) > 0) =>
        /\ stage # "crashed"
        /\ \A i \in 1..Len(employee_data) :
               \E j \in DOMAIN quartile_labels :
                   employee_data[i].salary_quartile = quartile_labels[j]
        /\ \A i, k \in 1..Len(employee_data) :
               employee_data[i].monthly_income[1] < employee_data[k].monthly_income[1]
                  => QuartileOf(employee_data[i].salary_quartile)
                       <= QuartileOf(employee_data[k].salary_quartile)
        /\ \A j, l \in DOMAIN quartile_labels :
               Cardinality({i \in 1..Len(employee_data) :
                               employee_data[i].salary_quartile = quartile_labels[j]})
                 <= 1 + Cardinality({i \in 1..Len(employee_data) :
                               employee_data[i].salary_quartile = quartile_labels[l]})

\* C18: commute_category is Close, Moderate, Far, Very_Far for a
\* distance_from_home in (0,10], (10,20], (20,30], (30,100], and
\* performance_category is Poor, Below_Average, Average, Good, Excellent for a
\* performance_rating of 1, 2, 3, 4, 5, whatever the other rows are.
C18_Categories ==
    stage \in AfterEngineer =>
        \A i \in 1..Len(employee_data) :
            LET r == employee_data[i]
                d == r.distance_from_home
                p == r.performance_rating
            IN  /\ d # NaN =>
                     /\ (0 < d[1] /\ d[1] <= 2 * 10) => r.commute_category = "Close"
                     /\ (2 * 10 < d[1] /\ d[1] <= 2 * 20) => r.commute_category = "Moderate"
                     /\ (2 * 20 < d[1] /\ d[1] <= 2 * 30) => r.commute_category = "Far"
                     /\ (2 * 30 < d[1] /\ d[1] <= 2 * 100) => r.commute_category = "Very_Far"
                /\ p = <<2 * 1>> => r.performance_category = "Poor"
                /\ p = <<2 * 2>> => r.performance_category = "Below_Average"
                /\ p = <<2 * 3>> => r.performance_category = "Average"
                /\ p = <<2 * 4>> => r.performance_category = "Good"
                /\ p = <<2 * 5>> => r.performance_category = "Excellent"

\* a distance just above the first edge beside a distance within it, and a
\* rating of 2 beside a rating of 3
C18_Witness ==
    /\ stage \in AfterEngineer
    /\ Len(employee_data) = 2
    /\ employee_data[1].distance_from_home = Num(11)
    /\ employee_data[1].commute_category = "Moderate"
    /\ employee_data[2].commute_category = "Close"
    /\ employee_data[1].performance_rating = Num(2)
    /\ employee_data[1].performance_category = "Below_Average"
    /\ employee_data[2].performance_category = "Average"

\* C19: for ratings in [1,5], satisfaction_risk_score is
\* (5 - job_satisfaction) * 2 + (5 - work_life_balance) * 1.5, within
\* [0, 14.5], and engagement_score is job_satisfaction * 0.4 +
\* work_life_balance * 0.3 + performance_rating * 0.3, within [1, 5].
\* Ratings are cells of halves; 40 times either score is compared.
C19_Scores ==
    stage \in AfterEngineer =>
        \A i \in 1..Len(employee_data) :
            LET r   == employee_data[i]
                InRatings(c) == c # NaN /\ 2 * 1 <= c[1] /\ c[1] <= 2 * 5
            IN  (/\ InRatings(r.job_satisfaction) /\ InRatings(r.work_life_balance)
                 /\ InRatings(r.performance_rating)) =>
                    LET js  == r.job_satisfaction[1]
                        wlb == r.work_life_balance[1]
                        pr  == r.performance_rating[1]
                        risk40 == 10 * r.satisfaction_risk_score[1]
                        eng40  == 2 * r.engagement_score[1]
                    IN  /\ r.satisfaction_risk_score # NaN
                        /\ r.engagement_score # NaN
                        /\ risk40 = (2 * 5 - js) * 40 + (2 * 5 - wlb) * 30
                        /\ 0 <= risk40 /\ risk40 <= 580
                        /\ eng40 = js * 8 + wlb * 6 + pr * 6
                        /\ 40 * 1 <= eng40 /\ eng40 <= 40 * 5

\* satisfaction 2, balance 3, rating 4: risk 9, engagement 2.9
C19_Witness ==
    /\ stage \in AfterEngineer
    /\ \E i \in 1..Len(employee_data) :
           /\ employee_data[i].job_satisfaction = Num(2)
           /\ employee_data[i].work_life_balance = Num(3)
           /\ employee_data[i].performance_rating = Num(4)
           /\ employee_data[i].satisfaction_risk_score = <<4 * 9>>
           /\ employee_data[i].engagement_score = <<58>>

-----------------------------------------------------------------------------
(* Properties of the merged table *)

\* C20: in the merged table an employee with no row in the performance
\* table has a missing value, not zero, in every performance column, an
\* employee with no exit-survey row has a missing value in every survey
\* column, and the merge ends with every employee in the merged table.
C20_UnmatchedMissing ==
    stage = "merged" =>
        /\ \A k \in 1..Len(processed_data) :
               LET m == processed_data[k]
               IN  /\ (\A j \in 1..Len(performance_data) :
                           performance_data[j].employee_id # m.employee_id) =>
                          /\ m.performance_rating_perf = NaN
                          /\ m.goals_met = NaN
                          /\ m.promotion_ready = MissingText
                   /\ (\A j \in 1..Len(exit_survey_data) :
                           exit_survey_data[j].employee_id # m.employee_id) =>
                          /\ m.exit_reason_primary = MissingText
                          /\ m.overall_satisfaction = NaN
                          /\ m.would_recommend_company = NaN
        /\ \A i \in 1..Len(employee_data) :
               \E k \in 1..Len(processed_data) :
                   processed_data[k].employee_id = employee_data[i].employee_id

\* one employee with a performance row and one without
C20_Witness ==
    /\ stage = "merged"
    /\ Len(processed_data) = 2
    /\ processed_data[1].employee_id = 1
    /\ processed_data[1].goals_met # NaN
    /\ processed_data[2].employee_id = 2
    /\ processed_data[2].goals_met = NaN
    /\ processed_data[2].promotion_ready = MissingText

\* ---- text normalisation ----

Trimmed(v) == v = <<>> \/ (~IsSpace(v[1]) /\ ~IsSpace(v[Len(v)]))

LowerOf(v) == [i \in DOMAIN v |-> ToLower(v[i])]

\* the letters of a raw cell without its surrounding whitespace, case aside
RawLetters(raw) ==
    LET keep == {i \in DOMAIN raw : raw[i] # " "}
    IN  IF keep = {} THEN <<>>
        ELSE LowerOf(SubSeq(raw, CHOOSE i \in keep : \A j \in keep : i <= j,
                                 CHOOSE i \in keep : \A j \in keep : i >= j))

IsTitleCase(v) ==
    \A i \in DOMAIN v :
        IsCased(v[i]) => (IsUpper(v[i]) <=> (i = 1 \/ ~IsCased(v[i - 1])))

IsUpperCase(v) == \A i \in DOMAIN v : ~IsLower(v[i])

IsCapitalized(v) ==
    \A i \in DOMAIN v : IF i = 1 THEN ~IsLower(v[i]) ELSE ~IsUpper(v[i])

StatedText(col, raw, v) ==
    LET low == RawLetters(raw)
    IN  IF col = "gender" THEN IsUpperCase(v) /\ LowerOf(v) = low
        ELSE IF col = "attrition" THEN IsCapitalized(v) /\ LowerOf(v) = low
        ELSE IF col = "department" /\ low = <<"i", "t">> THEN v = <<"I", "T">>
        ELSE IF col = "department" /\ low = <<"h", "r">> THEN v = <<"H", "R">>
        ELSE IF col = "department" /\ low = LowerOf(Txt_research_development)
            THEN v = <<"R", "&", "D">>
        ELSE IsTitleCase(v) /\ LowerOf(v) = low

\* C21: after clean_employee_data every text field of every kept row has no
\* surrounding whitespace and is case-normalised (title case, gender upper
\* case, attrition capitalised); the departments 'It', 'Hr' and 'Research &
\* Development' are stored as 'IT', 'HR' and 'R&D' and every other
\* department is stored as its normalised form.
C21_TextNormalized ==
    stage = "cleaned_employee" =>
        \A k \in 1..Len(employee_data) :
            LET row == employee_file[NthFirst(employee_file, k)]
            IN  \A col \in text_columns :
                    /\ Trimmed(employee_data[k][col])
                    /\ row[col] # MissingText
                           => StatedText(col, row[col], employee_data[k][col])

C21_Witness ==
    /\ stage = "cleaned_employee"
    /\ Len(employee_data) >= 1
    /\ employee_file[1].department = <<"o", "p", "s", " ">>
    /\ employee_data[1].department = <<"O", "p", "s">>
    /\ employee_file[1].attrition = <<"N", "O", " ">>
    /\ employee_data[1].attrition = <<"N", "o">>
    /\ employee_file[1].gender = <<"m">>
    /\ employee_data[1].gender = <<"M">>

\* ---- dates ----

\* the texts of the input files that are dates
KnownDates == {Txt_date, <<"2", "0", "2", "4", "-", "0", "2", "-", "2", "9">>}

StatedDate(raw) == IF raw \in KnownDates THEN <<"Timestamp">> \o raw ELSE <<"NaT">>

AfterCleanPerformance == {"cleaned_performance", "cleaned", "engineered", "crashed"} \cup AfterMerge
AfterCleanExit == {"cleaned", "engineered", "crashed"} \cup AfterMerge

\* C22: in each of the three cleaning operations a date value that is no
\* date becomes NaT in its own row only: the operation completes, a date in
\* any other row keeps its converted value, and no row is removed.
C22_DatesCoerced ==
    /\ stage \in AfterCleanEmployee =>
          /\ Len(employee_data) = Cardinality(FirstOccurrences(employee_file))
          /\ \A k \in 1..Len(employee_data) :
                 employee_data[k].attrition_date
                     = StatedDate(employee_file[NthFirst(employee_file, k)].attrition_date)
    /\ stage \in AfterCleanPerformance =>
          /\ Len(performance_data) = Len(performance_file)
          /\ \A k \in 1..Len(performance_data) :
                 performance_data[k].review_date = StatedDate(performance_file[k].review_date)
    /\ stage \in AfterCleanExit =>
          /\ Len(exit_survey_data) = Len(exit_survey_file)
          /\ \A k \in 1..Len(exit_survey_data) :
                 exit_survey_data[k].exit_date = StatedDate(exit_survey_file[k].exit_date)

C22_Witness ==
    /\ stage = "cleaned"
    /\ Len(employee_data) = 2 /\ Len(performance_data) = 2 /\ Len(exit_survey_data) = 2
    /\ employee_file[1].attrition_date = <<"u", "n", "k", "n", "o", "w", "n">>
    /\ employee_data[1].attrition_date = <<"NaT">>
    /\ employee_data[2].attrition_date = <<"Timestamp">> \o Txt_date
    /\ performance_file[1].review_date = <<"2", "0", "2", "3", "-", "0", "2", "-", "3", "0">>
    /\ performance_data[1].review_date = <<"NaT">>
    /\ performance_data[2].review_date = <<"Timestamp">> \o Txt_date
    /\ exit_survey_file[1].exit_date = MissingText
    /\ exit_survey_data[1].exit_date = <<"NaT">>
    /\ exit_survey_data[2].exit_date = <<"Timestamp">> \o Txt_date

\* ---- the quality report ----

\* the key of the employee report that counts the out-of-range values of a field
InvalidKey ==
    [age |-> "invalid_ages", monthly_income |-> "invalid_salaries",
     years_at_company |-> "invalid_tenure", performance_rating |-> "invalid_ratings"]

\* the kept rows whose raw value of col was capped by clean_employee_data
CappedRows(col) ==
    {i \in FirstOccurrences(employee_file) :
        employee_file[i][col] # NaN /\ ~InRange(employee_file[i][col], col)}

\* the kept rows whose missing value of col was replaced by clean_employee_data
ImputedRows(col) ==
    {k \in 1..Len(employee_data) :
        /\ employee_file[NthFirst(employee_file, k)][col] = NaN
        /\ employee_data[k][col] # NaN}

\* C23: after validation and cleaning, data_quality_report holds for the
\* employee table the number of duplicate identifiers removed, for every
\* field of the range table the number of values capped (a field without a
\* count had none), and for every imputed field the number of missing
\* values imputed.
C23_ReportCounts ==
    (stage \in AfterCleanEmployee /\ DOMAIN data_quality_report # {}) =>
        LET report == data_quality_report.employee_data
        IN  /\ report.duplicate_employees = removed_duplicates
            /\ \A col \in NumericFields :
                   IF col \in DOMAIN InvalidKey
                   THEN report[InvalidKey[col]] = Cardinality(CappedRows(col))
                   ELSE CappedRows(col) = {}
            /\ \A col \in ImputedFields :
                   report.missing_values[col] = Cardinality(ImputedRows(col))

\* ---- ranked outputs ----

\* C24: the ranked outputs are sorted stably: in the department table and in
\* the high-risk list, entries of equal sort key stand in the order of the
\* unsorted groups (the departments in key order) and rows (the order of
\* the employee table).
C24_StableRanking ==
    /\ Has("department_rates") =>
          LET t == analysis_results.department_rates
          IN  \A j, k \in 1..Len(t) :
                  (j < k /\ t[j].departed * t[k].total_employees
                                = t[k].departed * t[j].total_employees)
                      => TextLess(t[j].department, t[k].department)
    /\ Has("high_risk_employees") =>
          LET t == analysis_results.high_risk_employees
          IN  \A j, k \in 1..Len(t) :
                  (j < k /\ t[j].risk_score = t[k].risk_score)
                      => \E a, b \in 1..Len(current_employees) :
                             /\ a < b
                             /\ current_employees[a] = t[j]
                             /\ current_employees[b] = t[k]

\* ---- the order of the pipeline ----

\* C25: in a run of the pipeline engineer_features runs once, after the
\* cleaning and before merge_datasets and generate_data_summary, and no
\* later stage changes a derived feature or an employee column of any
\* employee row: every row of the merged table carries the columns of an
\* employee row unchanged (a joined column of the same name has a suffix).
C25_FeaturesKept ==
    /\ [](stage \in AfterMerge =>
            /\ \A k \in 1..Len(processed_data) : \E i \in 1..Len(employee_data) :
                   \A col \in DOMAIN employee_data[i] :
                       processed_data[k][col] = employee_data[i][col]
            /\ \A i \in 1..Len(employee_data) : \E k \in 1..Len(processed_data) :
                   \A col \in DOMAIN employee_data[i] :
                       processed_data[k][col] = employee_data[i][col])
    /\ [][/\ (stage' = "engineered" /\ stage # "engineered") => stage = "cleaned"
          /\ (stage = "engineered" /\ stage' # "engineered") => stage' = "merged"
          /\ (stage' = "merged" /\ stage # "merged") => stage = "engineered"
          /\ stage \in AfterEngineer =>
                 /\ employee_data' = employee_data
                 /\ stage' \in AfterEngineer
                 /\ stage \in AfterMerge => processed_data' = processed_data]_vars

\* a finished run whose merged row has the employee's rating beside the
\* joined one, and its derived features
C25_Witness ==
    /\ stage = "returned_True"
    /\ Len(processed_data) >= 1
    /\ processed_data[1].performance_rating = Num(3)
    /\ processed_data[1].performance_rating_perf = Num(4)
    /\ processed_data[1].age_group = employee_data[1].age_group
    /\ processed_data[1].engagement_score = employee_data[1].engagement_score

\* ---- empty populations ----

\* the analyzer's run ended in calculate_attrition_rates
CrashedInRates == an_stage = "crashed" /\ ~Has("overall_rate")

\* the analyzer's run ended in analyze_tenure_impact, after it added tenure_group
CrashedInTenure ==
    /\ an_stage = "crashed"
    /\ Has("overall_rate")
    /\ ~Has("tenure_analysis")
    /\ \A i \in 1..Len(an_employee_data) : "tenure_group" \in DOMAIN an_employee_data[i]

\* C26: no aggregation step ends by dividing by an empty population:
\* calculate_attrition_rates and generate_data_summary complete when the
\* table has no rows, and analyze_tenure_impact completes when no employee
\* has years_at_company <= 3.
C26_NoEmptyPopulationCrash ==
    /\ ~CrashedInRates
    /\ ~CrashedInTenure
    /\ stage # "crashed_summary"

\* ---- cleaning twice ----

\* C27: clean_performance_data is idempotent: cleaning the cleaned table
\* again changes nothing (promotion_ready keeps its True/False, the ratings
\* and goals_met keep their clipped values).
C27_PerformanceIdempotent ==
    stage \in AfterCleanPerformance => CleanPerformance(performance_data) = performance_data

\* C28: clean_exit_survey_data keeps would_recommend_company of every row
\* (0 and 1 stay as they are); only the five-point rating columns are
\* clamped to [1, 5].
C28_RecommendKept ==
    stage \in AfterCleanExit =>
        /\ Len(exit_survey_data) = Len(exit_survey_file)
        /\ \A k \in 1..Len(exit_survey_data) :
               /\ exit_survey_data[k].would_recommend_company
                      = exit_survey_file[k].would_recommend_company
               /\ LET raw == exit_survey_file[k].overall_satisfaction
                  IN  exit_survey_data[k].overall_satisfaction
                          = IF raw # NaN /\ raw[1] < 2 * 1 THEN <<2 * 1>>
                            ELSE IF raw # NaN /\ raw[1] > 2 * 5 THEN <<2 * 5>>
                            ELSE raw

\* C29: run_full_preprocessing_pipeline returns True only if every stage
\* succeeded: a run whose save_processed_data returned False does not
\* return True.
C29_TrueOnlyOnSuccess ==
    [][stage = "save_failed" => stage' # "returned_True"]_vars

\* C30: after clean_employee_data and engineer_features every employee row
\* has an age_group, a tenure_group, a commute_category and a
\* performance_category, whatever the raw row held.
C30_CategoriesPresent ==
    stage \in AfterEngineer =>
        \A i \in 1..Len(employee_data) :
            /\ employee_data[i].age_group # NoCategory
            /\ employee_data[i].tenure_group # NoCategory
            /\ employee_data[i].commute_category # NoCategory
            /\ employee_data[i].performance_category # NoCategory

====
